---- MODULE Spec2Model ----
(***************************************************************************)
(* Model of the z2l RISC-V emulator core: the MMU with its ROM and RAM,    *)
(* the instruction word decoder, the RV32I opcode handlers, the hart's     *)
(* decode/execute pipeline, the processor cycle and the run loop that      *)
(* broadcasts one log record per cycle.                                    *)
(*                                                                         *)
(* Every 32-bit quantity (i32, u32 and the low 32 bits of a usize) is      *)
(* kept as the signed value of its bit pattern, in MinI32..MaxI32; the     *)
(* operators below give the wrapping and bitwise arithmetic of the code on *)
(* that representation.                                                    *)
(***************************************************************************)
EXTENDS Integers, Sequences, FiniteSets, TLC

\* ------------------------------------------------------------------------
\* 32-bit arithmetic

MaxI32 == 2147483647

MinI32 == (-MaxI32) - 1

IsI32(x) == x \in Int /\ x >= MinI32 /\ x <= MaxI32

\* bit 31 of a pattern
TopBit(x) == IF x < 0 THEN 1 ELSE 0

\* x & 0x7fffffff
Low31(x) == IF x < 0 THEN x - MinI32 ELSE x

Pow2(n) == 2 ^ n

\* bit n (0..31) of a pattern
Bit(x, n) == IF n = 31 THEN TopBit(x) ELSE (Low31(x) \div Pow2(n)) % 2

\* i32::wrapping_add / u32::wrapping_add
WrappingAdd(a, b) ==
    IF a >= 0 /\ b >= 0
    THEN IF a <= MaxI32 - b THEN a + b ELSE (a + MinI32) + (b + MinI32)
    ELSE IF a < 0 /\ b < 0
         THEN IF a >= MinI32 - b THEN a + b ELSE (a - MinI32) + (b - MinI32)
         ELSE a + b

\* two's complement negation, wrapping at i32::MIN
WrappingNeg(a) == IF a = MinI32 THEN MinI32 ELSE -a

\* i32::wrapping_sub
WrappingSub(a, b) == WrappingAdd(WrappingAdd(a, WrappingNeg(b)), 0)

\* x & mask, where mask has exactly the bits lo..hi set (0 <= lo <= hi <= 31)
MaskBits(x, lo, hi) ==
    IF lo = 31 THEN (IF x < 0 THEN MinI32 ELSE 0)
    ELSE IF hi = 31 THEN x - (Low31(x) % Pow2(lo))
    ELSE IF hi = 30 THEN Low31(x) - (Low31(x) % Pow2(lo))
    ELSE (Low31(x) % Pow2(hi + 1)) - (Low31(x) % Pow2(lo))

\* u32 << n and i32::wrapping_shl, 0 <= n <= 31
Shl(x, n) ==
    IF n = 0 THEN x
    ELSE IF n = 31 THEN (IF Bit(x, 0) = 1 THEN MinI32 ELSE 0)
    ELSE ((Low31(x) % Pow2(31 - n)) * Pow2(n))
         + (IF Bit(x, 31 - n) = 1 THEN MinI32 ELSE 0)

\* u32 >> n (zero filling), 0 <= n <= 31
Shr(x, n) ==
    IF n = 0 THEN x
    ELSE (Low31(x) \div Pow2(n)) + (IF x < 0 THEN Pow2(31 - n) ELSE 0)

\* i32 >> n (sign filling), 0 <= n <= 31
Sar(x, n) == x \div Pow2(n)

RECURSIVE BitOpNat(_, _, _)
\* bitwise operation on two naturals below 2^31; op is "and", "or" or "xor"
BitOpNat(op, a, b) ==
    IF a = 0 /\ b = 0 THEN 0
    ELSE LET x == a % 2
             y == b % 2
             z == CASE op = "and" -> IF x = 1 /\ y = 1 THEN 1 ELSE 0
                    [] op = "or"  -> IF x = 1 \/ y = 1 THEN 1 ELSE 0
                    [] op = "xor" -> IF x # y THEN 1 ELSE 0
         IN z + 2 * BitOpNat(op, a \div 2, b \div 2)

BitOp(op, a, b) ==
    LET s == BitOpNat(op, TopBit(a), TopBit(b))
    IN BitOpNat(op, Low31(a), Low31(b)) + (IF s = 1 THEN MinI32 ELSE 0)

\* a & b
BitAnd(a, b) == BitOp("and", a, b)

\* a | b
BitOr(a, b) == BitOp("or", a, b)

\* a ^ b
BitXor(a, b) == BitOp("xor", a, b)

\* a comparison of the two patterns as signed numbers
LessUnsignedU32_signed(a, b) == a < b

\* (a as u32) < (b as u32)
LessUnsignedU32(a, b) ==
    IF TopBit(a) # TopBit(b) THEN TopBit(a) < TopBit(b) ELSE a < b

\* x % 4 on the u32 value of a pattern
Mod4(x) == Low31(x) % 4

\* ------------------------------------------------------------------------
\* Exceptions and results

\* ProcessorException values; memory errors are lifted as a nested variant
IllegalInstruction == "IllegalInstruction"

InstructionAddressMisaligned == "InstructionAddressMisaligned"

EnvironmentCall == "EnvironmentCall"

EnvironmentBreak == "EnvironmentBreak"

OutOfBounds == "InvalidMemoryAccess(OutOfBounds)"

ReadOnly == "InvalidMemoryAccess(ReadOnly)"

LengthMismatch == "InvalidMemoryAccess(LengthMismatch)"

\* Option::None
None == [none |-> TRUE]

\* Option::Some(v)
Some(v) == [some |-> v]

IsSome(o) == "some" \in DOMAIN o

\* Result::Ok(v)
Ok(v) == [kind |-> "ok", val |-> v]

\* Result::Err(e)
Err(e) == [kind |-> "err", err |-> e]

\* a Rust panic (slice index out of order): the emulator thread dies
Panic == [kind |-> "panic"]

\* ------------------------------------------------------------------------
\* Instruction word decoder

identify_instruction_length_low_bits(raw) ==
    IF MaskBits(raw, 0, 1) # 3 THEN "HalfWord" ELSE "Word"

\* InstructionParts::identify_instruction_length
identify_instruction_length(raw) ==
    IF MaskBits(raw, 0, 1) # 3 THEN "HalfWord"
    ELSE IF MaskBits(raw, 2, 4) # 28 THEN "Word"
    ELSE IF MaskBits(raw, 5, 5) = 0 THEN "WordAndHalf"
    ELSE IF MaskBits(raw, 6, 6) = 0 THEN "DoubleWord"
    ELSE LET len == Shr(MaskBits(raw, 12, 14), 12)
         IN IF len = 7 THEN "Reserved" ELSE "Custom"

InstructionWordParts_zero_filled(raw) ==
    [ raw    |-> raw,
      opcode |-> MaskBits(raw, 0, 6),
      rd     |-> Shr(MaskBits(raw, 7, 11), 7),
      rs1    |-> Shr(MaskBits(raw, 15, 19), 15),
      rs2    |-> Shr(MaskBits(raw, 20, 24), 20),
      funct3 |-> Shr(MaskBits(raw, 12, 14), 12),
      funct7 |-> Shr(MaskBits(raw, 25, 31), 25),
      imm_i  |-> Sar(MaskBits(raw, 20, 31), 20),
      imm_s  |-> Sar(BitOr(MaskBits(raw, 25, 31),
                           Shl(MaskBits(raw, 7, 11), 13)), 20),
      imm_b  |-> Sar(BitOr(BitOr(MaskBits(raw, 31, 31),
                                 Shl(MaskBits(raw, 7, 7), 23)),
                           BitOr(Shr(MaskBits(raw, 25, 30), 1),
                                 Shl(MaskBits(raw, 8, 11), 12))), 19),
      imm_u  |-> MaskBits(raw, 12, 31),
      imm_j  |-> Shr(BitOr(BitOr(MaskBits(raw, 31, 31),
                                 Shl(MaskBits(raw, 12, 19), 11)),
                           BitOr(Shl(MaskBits(raw, 20, 20), 2),
                                 Shr(MaskBits(raw, 21, 30), 9))), 11) ]

\* InstructionWordParts::new
InstructionWordParts(raw) ==
    [ raw    |-> raw,
      opcode |-> MaskBits(raw, 0, 6),
      rd     |-> Shr(MaskBits(raw, 7, 11), 7),
      rs1    |-> Shr(MaskBits(raw, 15, 19), 15),
      rs2    |-> Shr(MaskBits(raw, 20, 24), 20),
      funct3 |-> Shr(MaskBits(raw, 12, 14), 12),
      funct7 |-> Shr(MaskBits(raw, 25, 31), 25),
      imm_i  |-> Sar(MaskBits(raw, 20, 31), 20),
      imm_s  |-> Sar(BitOr(MaskBits(raw, 25, 31),
                           Shl(MaskBits(raw, 7, 11), 13)), 20),
      imm_b  |-> Sar(BitOr(BitOr(MaskBits(raw, 31, 31),
                                 Shl(MaskBits(raw, 7, 7), 23)),
                           BitOr(Shr(MaskBits(raw, 25, 30), 1),
                                 Shl(MaskBits(raw, 8, 11), 12))), 19),
      imm_u  |-> MaskBits(raw, 12, 31),
      imm_j  |-> Sar(BitOr(BitOr(MaskBits(raw, 31, 31),
                                 Shl(MaskBits(raw, 12, 19), 11)),
                           BitOr(Shl(MaskBits(raw, 20, 20), 2),
                                 Shr(MaskBits(raw, 21, 30), 9))), 11) ]

\* InstructionParts::new: the parts of a 32-bit word, or IllegalInstruction
InstructionParts(raw) ==
    IF identify_instruction_length(raw) = "Word"
    THEN Ok(InstructionWordParts(raw))
    ELSE Err(IllegalInstruction)

\* ------------------------------------------------------------------------
\* Memory devices and the MMU.  A byte buffer is a sequence of 0..255; the
\* byte at offset k is element k + 1.  An address is the pattern of the low
\* 32 bits of the usize; the top bit is set exactly when it is negative.

Byte == 0 .. 255

\* i32::to_le_bytes / u16::to_le_bytes / u8::to_le_bytes: the low n bytes
to_le_bytes(value, n) == [i \in 1 .. n |-> MaskBits(Shr(value, 8 * (i - 1)), 0, 7)]

\* i32::from_le_bytes
i32_from_le_bytes(b) ==
    b[1] + 256 * b[2] + 65536 * b[3]
      + 16777216 * (IF b[4] >= 128 THEN b[4] - 256 ELSE b[4])

\* u16::from_le_bytes
u16_from_le_bytes(b) == b[1] + 256 * b[2]

\* u8::from_le_bytes
u8_from_le_bytes(b) == b[1]

\* RAM::new: zero-filled storage of the configured size
RAM_new(size) == [i \in 1 .. size |-> 0]

\* <ROM as Addressable>::load_raw for the range start .. start + n
\* (range.end > len, written without forming start + n)
ROM_load_raw(contents, start, n) ==
    IF start > Len(contents) - n
    THEN Err(OutOfBounds)
    ELSE Ok(SubSeq(contents, start + 1, start + n))

\* a boot image that accepts the stores inside it
ROM_store_raw_writable(contents, start, n, values) ==
    IF start > Len(contents) - n \/ Len(values) # n THEN Err(ReadOnly)
    ELSE Ok([i \in 1 .. Len(contents) |->
               IF i > start /\ i <= start + n THEN values[i - start]
               ELSE contents[i]])

\* <ROM as Addressable>::store_raw
ROM_store_raw(contents, start, n, values) == Err(ReadOnly)

\* <RAM as Addressable>::load_raw for the range start .. end; slicing with
\* start > end panics
RAM_load_raw(contents, start, end) ==
    IF end > Len(contents) THEN Err(OutOfBounds)
    ELSE IF start > end THEN Panic
    ELSE Ok(SubSeq(contents, start + 1, end))

\* Range<usize>::len
RangeLen(start, end) == IF start < end THEN end - start ELSE 0

\* a RAM that leaves the last byte of the range unwritten
RAM_store_raw_short(contents, start, end, values) ==
    IF end > Len(contents) THEN Err(OutOfBounds)
    ELSE IF Len(values) # RangeLen(start, end) THEN Err(LengthMismatch)
    ELSE Ok([i \in 1 .. Len(contents) |->
               IF i > start /\ i < end THEN values[i - start] ELSE contents[i]])

\* <RAM as Addressable>::store_raw for the range start .. end; yields the
\* new contents
RAM_store_raw(contents, start, end, values) ==
    IF end > Len(contents) THEN Err(OutOfBounds)
    ELSE IF Len(values) # RangeLen(start, end) THEN Err(LengthMismatch)
    ELSE Ok([i \in 1 .. Len(contents) |->
               IF i > start /\ i <= end THEN values[i - start] ELSE contents[i]])

\* an MMU that serves every load from the RAM
MMU_load_raw_aliased(mmu, start, n) ==
    RAM_load_raw(mmu.ram, Low31(start), Low31(WrappingAdd(start, n)))

\* MMU::load_raw for the range start .. start + n
MMU_load_raw(mmu, start, n) ==
    IF TopBit(start) = 0
    THEN ROM_load_raw(mmu.rom, start, n)
    ELSE RAM_load_raw(mmu.ram, Low31(start), Low31(WrappingAdd(start, n)))

\* MMU::store_raw for the range start .. start + n; yields the new RAM
MMU_store_raw(mmu, start, n, values) ==
    IF TopBit(start) = 0
    THEN ROM_store_raw(mmu.rom, start, n, values)
    ELSE RAM_store_raw(mmu.ram, Low31(start), Low31(WrappingAdd(start, n)),
                       values)

\* apply f to the value of an Ok result, pass errors and panics through
MapOk(r, f(_)) == IF r.kind = "ok" THEN Ok(f(r.val)) ELSE r

\* MMU::load_word
load_word(mmu, addr) == MapOk(MMU_load_raw(mmu, addr, 4), i32_from_le_bytes)

\* MMU::load_unsigned_halfword
load_unsigned_halfword(mmu, addr) ==
    MapOk(MMU_load_raw(mmu, addr, 2), u16_from_le_bytes)

\* sign extension of the low 16 bits: (v << 16) >> 16
SignExtend16(v) == Sar(Shl(v, 16), 16)

\* sign extension of the low 8 bits: (v << 24) >> 24
SignExtend8(v) == Sar(Shl(v, 24), 24)

\* MMU::load_signed_halfword
load_signed_halfword(mmu, addr) ==
    MapOk(load_unsigned_halfword(mmu, addr), SignExtend16)

\* MMU::load_unsigned_byte
load_unsigned_byte(mmu, addr) ==
    MapOk(MMU_load_raw(mmu, addr, 1), u8_from_le_bytes)

\* MMU::load_signed_byte
load_signed_byte(mmu, addr) ==
    MapOk(load_unsigned_byte(mmu, addr), SignExtend8)

\* LoadSpec::new
LoadSpec(width, addr) == [access_type |-> width, addr |-> addr]

\* StoreSpec::new
StoreSpec(width, addr, value) ==
    [access_type |-> width, addr |-> addr, value |-> value]

\* an MMU whose byte and half-word loads never sign-extend
MMU_load_zero_extending(mmu, load) ==
    CASE load.access_type = "Word" -> load_word(mmu, load.addr)
      [] load.access_type \in {"SignedHalfWord", "UnsignedHalfWord"} ->
            load_unsigned_halfword(mmu, load.addr)
      [] load.access_type \in {"SignedByte", "UnsignedByte"} ->
            load_unsigned_byte(mmu, load.addr)

\* MMU::load
MMU_load(mmu, load) ==
    CASE load.access_type = "Word" -> load_word(mmu, load.addr)
      [] load.access_type = "SignedHalfWord" ->
            load_signed_halfword(mmu, load.addr)
      [] load.access_type = "UnsignedHalfWord" ->
            load_unsigned_halfword(mmu, load.addr)
      [] load.access_type = "SignedByte" -> load_signed_byte(mmu, load.addr)
      [] load.access_type = "UnsignedByte" ->
            load_unsigned_byte(mmu, load.addr)

\* MMU::store_word
store_word(mmu, addr, value) ==
    MMU_store_raw(mmu, addr, 4, to_le_bytes(value, 4))

\* MMU::store_halfword
store_halfword(mmu, addr, value) ==
    MMU_store_raw(mmu, addr, 2, to_le_bytes(value, 2))

\* MMU::store_byte
store_byte(mmu, addr, value) ==
    MMU_store_raw(mmu, addr, 1, to_le_bytes(value, 1))

\* MMU::store: the byte widths are dispatched to store_halfword
MMU_store(mmu, store) ==
    CASE store.access_type = "Word" ->
            store_word(mmu, store.addr, store.value)
      [] store.access_type \in {"SignedHalfWord", "UnsignedHalfWord"} ->
            store_halfword(mmu, store.addr, store.value)
      [] store.access_type \in {"SignedByte", "UnsignedByte"} ->
            store_halfword(mmu, store.addr, store.value)

\* ------------------------------------------------------------------------
\* Register file

\* GeneralPurposeRegister::new
GeneralPurposeRegister == [kind |-> "gp", value |-> 0]

\* ZeroRegister
ZeroRegister == [kind |-> "zero"]

\* Register::load
Register_load(reg) == IF reg.kind = "zero" THEN 0 ELSE reg.value

\* Register::store: the cell after the store and the value returned (the
\* value before the store; always 0 for the zero register)
Register_store(reg, val) ==
    IF reg.kind = "zero"
    THEN [reg |-> reg, ret |-> 0]
    ELSE [reg |-> [reg EXCEPT !.value = val], ret |-> reg.value]

\* registers.get(&i).unwrap().load()
RegLoad(registers, i) == Register_load(registers[i])

\* registers.get_mut(&i).unwrap().store(val)
RegStore(registers, i, val) ==
    [registers EXCEPT ![i] = Register_store(registers[i], val).reg]

\* a register file whose cell 0 is an ordinary general-purpose cell
Hart_new_registers_writable_x0 == [i \in 0 .. 31 |-> GeneralPurposeRegister]

\* the register file built by Hart::new: a zero register at index 0 and
\* general-purpose registers at 1..31
Hart_new_registers ==
    [i \in 0 .. 31 |-> IF i = 0 THEN ZeroRegister ELSE GeneralPurposeRegister]

\* ExecutionEnvironment::get_registers: the values in ascending index order
get_registers(registers) == [i \in 1 .. 32 |-> RegLoad(registers, i - 1)]

\* ------------------------------------------------------------------------
\* RV32I opcode handlers: decoding

\* InstructionResult::default, with the register file left by execute
InstructionResult(registers) ==
    Ok([registers |-> registers, jump |-> None, store |-> None])

\* InstructionResult::set_jump
set_jump(registers, addr) ==
    Ok([registers |-> registers, jump |-> Some(addr), store |-> None])

\* InstructionResult::set_store
set_store(registers, store) ==
    Ok([registers |-> registers, jump |-> None, store |-> Some(store)])

\* LoadHandler::decode / LoadInstruction::new
LoadHandler_decode(i, pc) ==
    IF i.funct3 \notin {0, 1, 2, 4, 5} THEN Err(IllegalInstruction)
    ELSE Ok([op |-> "load", base |-> i.rs1, offset |-> i.imm_i, dest |-> i.rd,
             width |-> CASE i.funct3 = 0 -> "SignedByte"
                         [] i.funct3 = 1 -> "SignedHalfWord"
                         [] i.funct3 = 2 -> "Word"
                         [] i.funct3 = 4 -> "UnsignedByte"
                         [] i.funct3 = 5 -> "UnsignedHalfWord"])

\* FenceHandler::decode / FenceInstruction::new
FenceHandler_decode(i, pc) ==
    LET mode == MaskBits(Shr(i.raw, 28), 0, 3)
    IN IF mode \notin {0, 8} THEN Err(IllegalInstruction)
       ELSE Ok([op |-> "fence",
                mode |-> IF mode = 0 THEN "Normal" ELSE "TSO",
                flags |-> Shr(MaskBits(i.raw, 20, 27), 20)])

\* SrIInstruction::new: the behaviour is matched on imm_i & 0b111111100000
\* against the literals 0b0000000 and 0b0100000
SrIInstruction_new(i) ==
    LET sel == BitAnd(i.imm_i, 4064)
    IN IF sel \notin {0, 32} THEN Err(IllegalInstruction)
       ELSE Ok([op |-> "sri", src |-> i.rs1, dest |-> i.rd,
                behaviour |-> IF sel = 0 THEN "Logical" ELSE "Arithmetic",
                imm |-> BitAnd(i.imm_i, 31)])

\* OpImmHandler::decode
OpImmHandler_decode(i, pc) ==
    LET f == BitAnd(i.funct3, 7)
        rri(op) == Ok([op |-> op, src |-> i.rs1, imm |-> i.imm_i, dest |-> i.rd])
    IN CASE f = 0 -> rri("addi")
         [] f = 1 -> Ok([op |-> "slli", src |-> i.rs1, dest |-> i.rd,
                         shift |-> BitAnd(i.imm_i, 31)])
         [] f = 2 -> rri("slti")
         [] f = 3 -> rri("sltiu")
         [] f = 4 -> rri("xori")
         [] f = 5 -> SrIInstruction_new(i)
         [] f = 6 -> rri("ori")
         [] f = 7 -> rri("andi")

\* AUIPCHandler::decode
AUIPCHandler_decode(i, pc) ==
    Ok([op |-> "auipc", pc |-> pc, imm |-> i.imm_u, dest |-> i.rd])

\* StoreHandler::decode / StoreInstruction::new
StoreHandler_decode(i, pc) ==
    IF i.funct3 \notin {0, 1, 2} THEN Err(IllegalInstruction)
    ELSE Ok([op |-> "store", src |-> i.rs2, base |-> i.rs1, offset |-> i.imm_s,
             width |-> CASE i.funct3 = 0 -> "SignedByte"
                         [] i.funct3 = 1 -> "SignedHalfWord"
                         [] i.funct3 = 2 -> "Word"])

\* OpHandler::decode, with ArithmeticInstruction::new and SrInstruction::new
OpHandler_decode(i, pc) ==
    LET f == BitAnd(i.funct3, 7)
        rrr(op) == Ok([op |-> op, src1 |-> i.rs1, src2 |-> i.rs2, dest |-> i.rd])
    IN CASE f = 0 -> IF i.funct7 = 0 THEN rrr("add")
                     ELSE IF i.funct7 = 32 THEN rrr("sub")
                     ELSE Err(IllegalInstruction)
         [] f = 1 -> rrr("sll")
         [] f = 2 -> rrr("slt")
         [] f = 3 -> rrr("sltu")
         [] f = 4 -> rrr("xor")
         [] f = 5 -> IF i.funct7 = 0 THEN rrr("srl")
                     ELSE IF i.funct7 = 32 THEN rrr("sra")
                     ELSE Err(IllegalInstruction)
         [] f = 6 -> rrr("or")
         [] f = 7 -> rrr("and")

\* LuiHandler::decode
LuiHandler_decode(i, pc) == Ok([op |-> "lui", imm |-> i.imm_u, dest |-> i.rd])

\* BranchHandler::decode / BranchInstruction::new
BranchHandler_decode(i, pc) ==
    LET f == BitAnd(i.funct3, 7)
    IN IF f \notin {0, 1, 4, 5, 6, 7} THEN Err(IllegalInstruction)
       ELSE Ok([op |-> "branch", pc |-> pc, src1 |-> i.rs1, src2 |-> i.rs2,
                offset |-> i.imm_b,
                condition |-> CASE f = 0 -> "Equal"
                                [] f = 1 -> "NotEqual"
                                [] f = 4 -> "Less"
                                [] f = 5 -> "GreaterOrEqual"
                                [] f = 6 -> "LessUnsigned"
                                [] f = 7 -> "GreaterOrEqualUnsigned"])

\* JalrHandler::decode
JalrHandler_decode(i, pc) ==
    Ok([op |-> "jalr", pc |-> pc, base |-> i.rs1, offset |-> i.imm_i,
        dest |-> i.rd])

\* JalHandler::decode
JalHandler_decode(i, pc) ==
    Ok([op |-> "jal", pc |-> pc, offset |-> i.imm_j, dest |-> i.rd])

\* SystemHandler::decode, with ECallInstruction::new and EBreakInstruction::new
SystemHandler_decode(i, pc) ==
    IF i.imm_i \notin {0, 1} THEN Err(IllegalInstruction)
    ELSE IF i.rs1 # 0 \/ i.funct3 # 0 \/ i.rd # 0 THEN Err(IllegalInstruction)
    ELSE Ok([op |-> IF i.imm_i = 0 THEN "ecall" ELSE "ebreak"])

\* the opcodes registered by RV32I::register
RV32I_opcodes == {3, 15, 19, 23, 35, 51, 55, 99, 103, 111, 115}

\* the handler installed for an opcode, applied to the word parts
OpcodeHandler_decode(opcode, parts, pc) ==
    CASE opcode = 3   -> LoadHandler_decode(parts, pc)
      [] opcode = 15  -> FenceHandler_decode(parts, pc)
      [] opcode = 19  -> OpImmHandler_decode(parts, pc)
      [] opcode = 23  -> AUIPCHandler_decode(parts, pc)
      [] opcode = 35  -> StoreHandler_decode(parts, pc)
      [] opcode = 51  -> OpHandler_decode(parts, pc)
      [] opcode = 55  -> LuiHandler_decode(parts, pc)
      [] opcode = 99  -> BranchHandler_decode(parts, pc)
      [] opcode = 103 -> JalrHandler_decode(parts, pc)
      [] opcode = 111 -> JalHandler_decode(parts, pc)
      [] opcode = 115 -> SystemHandler_decode(parts, pc)

Hart_decode_at_next_pc(raw_instr, pc) ==
    LET parts == InstructionParts(raw_instr)
    IN IF parts.kind = "err" THEN parts
       ELSE IF parts.val.opcode \notin RV32I_opcodes
            THEN Err(IllegalInstruction)
            ELSE OpcodeHandler_decode(parts.val.opcode, parts.val,
                                      WrappingAdd(pc, 4))

\* Hart::decode
Hart_decode(raw_instr, pc) ==
    LET parts == InstructionParts(raw_instr)
    IN IF parts.kind = "err" THEN parts
       ELSE IF parts.val.opcode \notin RV32I_opcodes
            THEN Err(IllegalInstruction)
            ELSE OpcodeHandler_decode(parts.val.opcode, parts.val, pc)

\* ------------------------------------------------------------------------
\* RV32I instructions: load request, execute, format

\* a load request that always asks for a word
Instruction_load_as_word(instr, registers) ==
    IF instr.op = "load"
    THEN Some(LoadSpec("Word",
                       WrappingAdd(RegLoad(registers, instr.base), instr.offset)))
    ELSE None

\* Instruction::load: the default is no request; LoadInstruction::load asks
\* for its width at base + offset
Instruction_load(instr, registers) ==
    IF instr.op = "load"
    THEN Some(LoadSpec(instr.width,
                       WrappingAdd(RegLoad(registers, instr.base), instr.offset)))
    ELSE None

\* a jal that jumps without testing the alignment of its target
JalInstruction_execute_unchecked(instr, registers, mem) ==
    set_jump(RegStore(registers, instr.dest, WrappingAdd(instr.pc, 4)),
             WrappingAdd(instr.pc, instr.offset))

\* JalInstruction::execute
JalInstruction_execute(instr, registers, mem) ==
    LET jump_addr == WrappingAdd(instr.pc, instr.offset)
    IN IF Mod4(jump_addr) # 0
       THEN Err(InstructionAddressMisaligned) @@ [registers |-> registers]
       ELSE set_jump(RegStore(registers, instr.dest, WrappingAdd(instr.pc, 4)),
                     jump_addr)

JalrInstruction_execute_link_first(instr, registers, mem) ==
    LET linked == RegStore(registers, instr.dest, WrappingAdd(instr.pc, 4))
        base == RegLoad(linked, instr.base)
        jump_addr == MaskBits(WrappingAdd(base, instr.offset), 1, 31)
    IN IF Mod4(jump_addr) # 0
       THEN Err(InstructionAddressMisaligned) @@ [registers |-> linked]
       ELSE set_jump(linked, jump_addr)

\* JalrInstruction::execute
JalrInstruction_execute(instr, registers, mem) ==
    LET base == RegLoad(registers, instr.base)
        jump_addr == MaskBits(WrappingAdd(base, instr.offset), 1, 31)
    IN IF Mod4(jump_addr) # 0
       THEN Err(InstructionAddressMisaligned) @@ [registers |-> registers]
       ELSE set_jump(RegStore(registers, instr.dest, WrappingAdd(instr.pc, 4)),
                     jump_addr)

\* the comparison selected by a BranchCondition
BranchCondition_holds(condition, src1, src2) ==
    CASE condition = "Equal" -> src1 = src2
      [] condition = "NotEqual" -> src1 # src2
      [] condition = "Less" -> src1 < src2
      [] condition = "GreaterOrEqual" -> src1 >= src2
      [] condition = "LessUnsigned" -> LessUnsignedU32(src1, src2)
      [] condition = "GreaterOrEqualUnsigned" -> ~LessUnsignedU32(src1, src2)

\* BranchInstruction::execute: the alignment of the target is tested before
\* the condition
BranchInstruction_execute(instr, registers, mem) ==
    LET src1 == RegLoad(registers, instr.src1)
        src2 == RegLoad(registers, instr.src2)
        jump_addr == WrappingAdd(instr.pc, instr.offset)
    IN IF Mod4(jump_addr) # 0
       THEN Err(InstructionAddressMisaligned) @@ [registers |-> registers]
       ELSE IF BranchCondition_holds(instr.condition, src1, src2)
            THEN set_jump(registers, jump_addr)
            ELSE InstructionResult(registers)

\* StoreInstruction::execute
StoreInstruction_execute(instr, registers, mem) ==
    LET src == RegLoad(registers, instr.src)
        base == RegLoad(registers, instr.base)
        addr == WrappingAdd(base, instr.offset)
    IN set_store(registers, StoreSpec(instr.width, addr, src))

\* execute of the OP-IMM instructions
OpImm_result(instr, src) ==
    CASE instr.op = "addi" -> WrappingAdd(src, instr.imm)
      [] instr.op = "slti" -> IF src < instr.imm THEN 1 ELSE 0
      [] instr.op = "sltiu" -> IF LessUnsignedU32(src, instr.imm) THEN 1 ELSE 0
      [] instr.op = "xori" -> BitXor(src, instr.imm)
      [] instr.op = "ori" -> BitOr(src, instr.imm)
      [] instr.op = "andi" -> BitAnd(src, instr.imm)
      [] instr.op = "slli" -> Shl(src, instr.shift)
      [] instr.op = "sri" -> IF instr.behaviour = "Logical"
                             THEN Shr(src, instr.imm)
                             ELSE Sar(src, instr.imm)

\* execute of the OP instructions
Op_result(instr, src1, src2) ==
    CASE instr.op = "add" -> WrappingAdd(src1, src2)
      [] instr.op = "sub" -> WrappingSub(src1, src2)
      [] instr.op = "sll" -> Shl(src1, BitAnd(src2, 31))
      [] instr.op = "slt" -> IF src1 < src2 THEN 1 ELSE 0
      [] instr.op = "sltu" -> IF LessUnsignedU32(src1, src2) THEN 1 ELSE 0
      [] instr.op = "xor" -> BitXor(src1, src2)
      [] instr.op = "srl" -> Shr(src1, BitAnd(src2, 31))
      [] instr.op = "sra" -> Sar(src1, BitAnd(src2, 31))
      [] instr.op = "or" -> BitOr(src1, src2)
      [] instr.op = "and" -> BitAnd(src1, src2)

OpImmOps == {"addi", "slti", "sltiu", "xori", "ori", "andi", "slli", "sri"}

OpOps == {"add", "sub", "sll", "slt", "sltu", "xor", "srl", "sra", "or", "and"}

\* Instruction::execute of every RV32I instruction.  execute works on the
\* register file through a mutable reference: an Err result carries the
\* registers as execute has left them when it returned
Instruction_execute(instr, registers, mem) ==
    CASE instr.op = "load" ->
            InstructionResult(RegStore(registers, instr.dest, mem))
      [] instr.op = "fence" -> InstructionResult(registers)
      [] instr.op \in OpImmOps ->
            InstructionResult(RegStore(registers, instr.dest,
                OpImm_result(instr, RegLoad(registers, instr.src))))
      [] instr.op = "auipc" ->
            InstructionResult(RegStore(registers, instr.dest,
                WrappingAdd(instr.pc, instr.imm)))
      [] instr.op = "store" -> StoreInstruction_execute(instr, registers, mem)
      [] instr.op \in OpOps ->
            InstructionResult(RegStore(registers, instr.dest,
                Op_result(instr, RegLoad(registers, instr.src1),
                          RegLoad(registers, instr.src2))))
      [] instr.op = "lui" ->
            InstructionResult(RegStore(registers, instr.dest, instr.imm))
      [] instr.op = "branch" -> BranchInstruction_execute(instr, registers, mem)
      [] instr.op = "jalr" -> JalrInstruction_execute(instr, registers, mem)
      [] instr.op = "jal" -> JalInstruction_execute(instr, registers, mem)
      [] instr.op = "ecall" ->
            Err(EnvironmentCall) @@ [registers |-> registers]
      [] instr.op = "ebreak" ->
            Err(EnvironmentBreak) @@ [registers |-> registers]

\* <MemoryAccessType as Display>::fmt
MemoryAccessType_fmt(width) ==
    CASE width = "Word" -> "w"
      [] width = "SignedHalfWord" -> "h"
      [] width = "UnsignedHalfWord" -> "hu"
      [] width = "SignedByte" -> "b"
      [] width = "UnsignedByte" -> "bu"

\* <BranchCondition as Display>::fmt
BranchCondition_fmt(condition) ==
    CASE condition = "Equal" -> "beq"
      [] condition = "NotEqual" -> "bne"
      [] condition = "Less" -> "blt"
      [] condition = "GreaterOrEqual" -> "bge"
      [] condition = "LessUnsigned" -> "bltu"
      [] condition = "GreaterOrEqualUnsigned" -> "bgeu"

\* Instruction::format: the rendering, kept as the tuple of the text pieces
\* and the numbers in the order the format string prints them
Instruction_format(instr) ==
    CASE instr.op = "load" ->
            <<"l", MemoryAccessType_fmt(instr.width), instr.dest, instr.offset,
              instr.base>>
      [] instr.op = "store" ->
            <<"s", MemoryAccessType_fmt(instr.width), instr.src, instr.offset,
              instr.base>>
      [] instr.op = "fence" ->
            <<IF instr.mode = "Normal" THEN "fence" ELSE "fence.tso",
              instr.flags \div 16, instr.flags % 16>>
      [] instr.op \in {"addi", "slti", "sltiu", "xori", "ori", "andi"} ->
            <<instr.op, instr.dest, instr.src, instr.imm>>
      [] instr.op = "slli" -> <<"slli", instr.dest, instr.src, instr.shift>>
      [] instr.op = "sri" ->
            <<"sr", IF instr.behaviour = "Logical" THEN "l" ELSE "a", "i",
              instr.dest, instr.src, instr.imm>>
      [] instr.op \in OpOps -> <<instr.op, instr.dest, instr.src1, instr.src2>>
      [] instr.op \in {"lui", "auipc"} -> <<instr.op, instr.dest, instr.imm>>
      [] instr.op = "branch" ->
            <<BranchCondition_fmt(instr.condition), instr.src1, instr.src2,
              instr.offset>>
      [] instr.op = "jalr" -> <<"jalr", instr.dest, instr.offset, instr.dest>>
      [] instr.op = "jal" -> <<"jal", instr.dest, instr.offset>>
      [] instr.op = "ecall" -> <<"ecall">>
      [] instr.op = "ebreak" -> <<"ebreak">>

\* ------------------------------------------------------------------------
\* Hart pipeline

\* Hart::new: pc = prev_pc = 0, no last and no pending instruction
Hart_new ==
    [registers |-> Hart_new_registers, pc |-> 0, prev_pc |-> 0,
     last_instr |-> None, next_instr |-> None]

\* Hart::reset: the registers are kept
Hart_reset(h) ==
    [h EXCEPT !.pc = 0, !.prev_pc = 0, !.last_instr = None, !.next_instr = None]

\* a hart that keeps the word just decoded pending across a jump
Hart_next_instr_keep(decoded, jump) == decoded

\* Hart::cycle, the pending instruction of the next cycle: the word just
\* decoded, or nothing when the executed instruction jumps
Hart_next_instr(decoded, jump) == IF IsSome(jump) THEN None ELSE decoded

\* Hart::cycle, the pc of the next cycle: the jump target or pc + 4
Hart_next_pc(pc, jump) == IF IsSome(jump) THEN jump.some ELSE WrappingAdd(pc, 4)

\* Hart::cycle, the pc returned with an exception of the pending instruction
Hart_exception_pc(h) == h.pc

\* Hart::cycle, last part: the load request of the new pending instruction
\* is taken from the registers as execute has left them, then pc, prev_pc
\* and the pending instruction are updated
Hart_cycle_finish(h, next_pc, next_instr, store, executed, jumped) ==
    [kind |-> "ok",
     hart |-> [h EXCEPT !.pc = next_pc, !.prev_pc = h.pc,
                        !.next_instr = next_instr],
     access |-> [load |-> IF IsSome(next_instr) /\ next_instr.some.kind = "ok"
                          THEN Instruction_load(next_instr.some.val, h.registers)
                          ELSE None,
                 store |-> store],
     executed |-> executed, jumped |-> jumped]

\* a hart that moves on to the next word when execute fails
Hart_cycle_executed_advancing(h, decoded, result) ==
    IF result.kind = "err"
    THEN [kind |-> "err", err |-> result.err, pc |-> Hart_exception_pc(h),
          hart |-> [h EXCEPT !.registers = result.registers,
                             !.pc = Hart_next_pc(h.pc, None),
                             !.prev_pc = h.pc,
                             !.next_instr = decoded],
          executed |-> TRUE]
    ELSE Hart_cycle_finish([h EXCEPT !.registers = result.val.registers],
                           Hart_next_pc(h.pc, result.val.jump),
                           Hart_next_instr(decoded, result.val.jump),
                           result.val.store, TRUE, IsSome(result.val.jump))

\* Hart::cycle, after execute has given result for the pending instruction
Hart_cycle_executed(h, decoded, result) ==
    IF result.kind = "err"
    THEN [kind |-> "err", err |-> result.err, pc |-> Hart_exception_pc(h),
          hart |-> [h EXCEPT !.registers = result.registers],
          executed |-> TRUE]
    ELSE Hart_cycle_finish([h EXCEPT !.registers = result.val.registers],
                           Hart_next_pc(h.pc, result.val.jump),
                           Hart_next_instr(decoded, result.val.jump),
                           result.val.store, TRUE, IsSome(result.val.jump))

\* Hart::cycle.  The result carries the hart as the call leaves it and
\* whether execute was called on the pending instruction; an Ok result also
\* carries the MemoryAccess {load, store} and whether the instruction jumped.
Hart_cycle(h, raw_instr, mem) ==
    IF ~IsSome(h.next_instr)
    THEN Hart_cycle_finish([h EXCEPT !.last_instr = None],
                           Hart_next_pc(h.pc, None),
                           Some(Hart_decode(raw_instr, h.pc)), None, FALSE, FALSE)
    ELSE IF h.next_instr.some.kind = "err"
    THEN [kind |-> "err", err |-> h.next_instr.some.err,
          pc |-> Hart_exception_pc(h), hart |-> h, executed |-> FALSE]
    ELSE Hart_cycle_executed(
            [h EXCEPT !.last_instr =
                        Some(Instruction_format(h.next_instr.some.val))],
            Some(Hart_decode(raw_instr, h.pc)),
            Instruction_execute(h.next_instr.some.val, h.registers, mem))

\* ------------------------------------------------------------------------
\* Processor

\* Processor::new, with the MMU built by ExecutionEnvironment::new
Processor_new(rom_contents, ram_size) ==
    [hart |-> Hart_new,
     mmu |-> [rom |-> rom_contents, ram |-> RAM_new(ram_size)],
     load |-> None, prev_pc |-> 0]

\* a processor whose reset keeps the deferred load
Processor_reset_keep_load(p) ==
    [p EXCEPT !.hart = Hart_reset(p.hart), !.prev_pc = 0]

\* Processor::reset
Processor_reset(p) ==
    [p EXCEPT !.hart = Hart_reset(p.hart), !.load = None, !.prev_pc = 0]

\* what a cycle did, for the record of the run: the address fetched from,
\* the deferred load performed, whether the pending instruction was
\* executed and jumped, and the store written back
CycleEvents(fetched, loaded, executed, jumped, store, stored) ==
    [fetched |-> fetched, loaded |-> loaded, executed |-> executed,
     jumped |-> jumped, store |-> store, stored |-> stored]

\* a processor that takes the deferred load out of its slot before the
\* cycle performs it, so that a failed cycle leaves none
Processor_cycle_err_load_taken(e, at, p, events) ==
    [kind |-> "err", err |-> e, pc |-> at, p |-> [p EXCEPT !.load = None],
     events |-> events]

\* the result of a cycle that returns the exception e paired with the pc at
Processor_cycle_err(e, at, p, events) ==
    [kind |-> "err", err |-> e, pc |-> at, p |-> p, events |-> events]

\* the result of a cycle in which the emulator thread panics
Processor_cycle_panic(p, events) == [kind |-> "panic", p |-> p, events |-> events]

\* a processor that completes the cycle without writing the store back
Processor_cycle_store_dropped(p, result, written) ==
    [kind |-> "ok",
     p |-> [p EXCEPT !.hart = result.hart, !.prev_pc = p.hart.pc,
                     !.load = result.access.load],
     events |-> CycleEvents(TRUE, p.load, result.executed, result.jumped,
                            result.access.store, IsSome(result.access.store))]

\* Processor::cycle, last step: the write-back of the store has given
\* written; then prev_pc and the deferred load are saved
Processor_cycle_store(p, result, written) ==
    IF written.kind = "err"
    THEN Processor_cycle_err(written.err, p.prev_pc,
            [p EXCEPT !.hart = result.hart],
            CycleEvents(TRUE, p.load, result.executed, result.jumped,
                        result.access.store, FALSE))
    ELSE [kind |-> "ok",
          p |-> [p EXCEPT !.hart = result.hart,
                          !.mmu.ram = written.val,
                          !.prev_pc = p.hart.pc,
                          !.load = result.access.load],
          events |-> CycleEvents(TRUE, p.load, result.executed, result.jumped,
                                 result.access.store,
                                 IsSome(result.access.store))]

\* Processor::cycle, after Hart::cycle has given result: the store it asks
\* for is applied through the MMU
Processor_cycle_hart(p, result) ==
    IF result.kind = "err"
    THEN Processor_cycle_err(result.err, result.pc,
            [p EXCEPT !.hart = result.hart],
            CycleEvents(TRUE, p.load, result.executed, FALSE, None, FALSE))
    ELSE Processor_cycle_store(p, result,
            IF IsSome(result.access.store)
            THEN MMU_store(p.mmu, result.access.store.some)
            ELSE Ok(p.mmu.ram))

\* a processor that returns the error of the deferred load with the pc of
\* the word being fetched
Processor_cycle_load_at_pc(p, instr, mem) ==
    IF mem.kind = "panic"
    THEN Processor_cycle_panic(p,
            CycleEvents(TRUE, None, FALSE, FALSE, None, FALSE))
    ELSE IF mem.kind = "err"
    THEN Processor_cycle_err(mem.err, p.hart.pc, p,
            CycleEvents(TRUE, None, FALSE, FALSE, None, FALSE))
    ELSE Processor_cycle_hart(p, Hart_cycle(p.hart, instr, mem.val))

\* Processor::cycle, after the deferred load has given mem: the hart runs
Processor_cycle_load(p, instr, mem) ==
    IF mem.kind = "panic"
    THEN Processor_cycle_panic(p,
            CycleEvents(TRUE, None, FALSE, FALSE, None, FALSE))
    ELSE IF mem.kind = "err"
    THEN Processor_cycle_err(mem.err, p.prev_pc, p,
            CycleEvents(TRUE, None, FALSE, FALSE, None, FALSE))
    ELSE Processor_cycle_hart(p, Hart_cycle(p.hart, instr, mem.val))

\* a processor that goes on with the cycle, on the word 0, when the fetch
\* fails
Processor_cycle_fetch_late(p, instr) ==
    Processor_cycle_load(p, IF instr.kind = "ok" THEN instr.val ELSE 0,
        IF IsSome(p.load) THEN MMU_load(p.mmu, p.load.some) ELSE Ok(0))

\* Processor::cycle, after the fetch has given instr: the load deferred from
\* the previous cycle is satisfied
Processor_cycle_fetch(p, instr) ==
    IF instr.kind = "panic"
    THEN Processor_cycle_panic(p,
            CycleEvents(FALSE, None, FALSE, FALSE, None, FALSE))
    ELSE IF instr.kind = "err"
    THEN Processor_cycle_err(instr.err, p.hart.pc, p,
            CycleEvents(FALSE, None, FALSE, FALSE, None, FALSE))
    ELSE Processor_cycle_load(p, instr.val,
            IF IsSome(p.load) THEN MMU_load(p.mmu, p.load.some) ELSE Ok(0))

\* Processor::cycle.  kind is "ok", "err" (with the exception and its pc) or
\* "panic"; p is the processor as the call leaves it.
Processor_cycle(p) == Processor_cycle_fetch(p, load_word(p.mmu, p.hart.pc))

\* ------------------------------------------------------------------------
\* Boot images and bounds of the model

\* length of the RAM, in bytes
RamSize == 8

\* number of pool words between the prologue and the epilogue of an image
MaxBody == 2

\* number of steps (cycles and resets) of a run
MaxSteps == 8

\* number of Reset control messages in a run
MaxResets == 1

\* every image starts with lui x1, 0x80000; addi x2, x0, -91, which leave
\* x1 = 0x80000000 (the first RAM address) and x2 = 0xffffffa5
Prologue == << -2147483465, -95420141 >>

\* an image ends with its body or with ecall; ecall
Epilogues == { << >>, << 115, 115 >> }

\* stores of each width to RAM and loads of what they wrote
StoreLoadPool ==
    { 2129955,    \* sb x2, 0(x1)
      2134051,    \* sh x2, 0(x1)
      2138147,    \* sw x2, 0(x1)
      41347,      \* lw x3, 0(x1)
      1098115 }   \* lbu x3, 1(x1)

\* accesses that fail, a load into x0 and a load after a change of its base
MemoryPool ==
    { 2138147,    \* sw x2, 0(x1)
      2105379,    \* sw x2, 0(x0)
      41347,      \* lw x3, 0(x1)
      40963,      \* lw x0, 0(x1)
      67117443,   \* lw x3, 64(x0)
      4227219 }   \* addi x1, x1, 4

\* jal
JalPool ==
    { 8389103,    \* jal x3, +8
      -2101137,   \* jal x0, -4
      6291951,    \* jal x3, +6
      5242899 }   \* addi x0, x0, 5

\* jalr
JalrPool ==
    { 9437671,    \* jalr x3, 9(x0)
      2097639,    \* jalr x3, 2(x0)
      32871,      \* jalr x0, 0(x1)
      5242899,    \* addi x0, x0, 5
      115 }       \* ecall

\* branches on equality, with aligned and misaligned targets
BranchPool ==
    { 1123,       \* beq x0, x0, +8
      5219,       \* bne x0, x0, +8
      867,        \* beq x0, x0, +6
      4963,       \* bne x0, x0, +6
      1114515 }   \* addi x3, x2, 1

\* signed and unsigned comparisons of x1 = 0x80000000 with 0
ComparePool ==
    { 50275,      \* blt x1, x0, +8
      54371,      \* bge x1, x0, +8
      58467,      \* bltu x1, x0, +8
      62563,      \* bgeu x1, x0, +8
      1114515 }   \* addi x3, x2, 1

\* exceptions and illegal words
SystemPool ==
    { 115,        \* ecall
      1048691,    \* ebreak
      127,        \* low bits 1111111: not a 32-bit encoding
      11,         \* opcode 0001011: no handler registered
      0 }         \* 16-bit encoding

\* exceptions after instructions that write, jump or store
MixedPool ==
    { 115,        \* ecall
      127,        \* low bits 1111111: not a 32-bit encoding
      1114515,    \* addi x3, x2, 1
      8388719,    \* jal x0, +8
      2138147 }   \* sw x2, 0(x1)

\* loads of every width from the word stored by sw
LoadPool ==
    { 2138147,    \* sw x2, 0(x1)
      33155,      \* lb x3, 0(x1)
      37251,      \* lh x3, 0(x1)
      49539,      \* lbu x3, 0(x1)
      53635 }     \* lhu x3, 0(x1)

Pools ==
    { StoreLoadPool, MemoryPool, JalPool, JalrPool, BranchPool, ComparePool,
      SystemPool, MixedPool, LoadPool }

\* the sequences over S of length at most n
RECURSIVE SeqsUpTo(_, _)
SeqsUpTo(S, n) ==
    IF n = 0 THEN { << >> }
    ELSE LET shorter == SeqsUpTo(S, n - 1)
         IN shorter \cup { Append(q, x) : q \in shorter, x \in S }

\* the boot images of the end-to-end scenarios: the addi chain, lui and
\* auipc, the branch taken and the branch not taken
ScenarioImages ==
    { << 5243027, 3178771, 115 >>,
      << -559037129, -559041129, 115 >>,
      << 5243027, 5243155, 2131043, 115, 115 >>,
      << 5243027, 6291731, 2131043, 115, 115 >> }

\* words with the LOAD opcode and the funct3 values 011, 110 and 111
IllegalLoads == { 45443, 57731, 61827 }

\* the boot images with one such word
IllegalLoadImages == { Prologue \o << w, 115, 115 >> : w \in IllegalLoads }

\* the boot images with a load outside the boot image, or a store to it, as
\* the target of a jump and as the first word
MemoryFaultImages ==
    { << 8388719, 115, 67117443, 115, 115 >>,   \* jal x0, +8; lw x3, 64(x0)
      << 8388719, 115, 2105379, 115, 115 >>,    \* jal x0, +8; sw x2, 0(x0)
      << 67117443, 115, 115 >>,                 \* lw x3, 64(x0)
      << 2105379, 115, 115 >> }                 \* sw x2, 0(x0)

\* the boot images for the instructions that use their own address and for
\* a jalr whose destination is its base register
PcRelativeImages ==
    { << 8388719, 115, -559041129, 115, 115 >>,  \* jal x0, +8; auipc x11, 0xdeadb
      Prologue \o << 32999, 115, 115 >>,         \* jalr x1, 0(x1)
      Prologue \o << 2130151, 115, 115 >> }      \* jalr x1, 2(x1)

\* the boot images with a word access at 0xfffffffc
TopOfMemoryImages ==
    { << -4194157, 41347, 115, 115 >>,     \* addi x1, x0, -4; lw x3, 0(x1)
      << -4194157, 2138147, 115, 115 >> }  \* addi x1, x0, -4; sw x2, 0(x1)

\* the boot images with an illegal word after a taken branch, an ebreak
\* after a jalr and a load outside the memory devices after a jal
DiscardedImages ==
    { << 1123, 127, 115, 115 >>,           \* beq x0, x0, +8; 0x0000007f
      << 8388711, 1048691, 115, 115 >>,    \* jalr x0, 8(x0); ebreak
      << 8388719, 67117443, 115, 115 >> }  \* jal x0, +8; lw x3, 64(x0)

\* the instruction words of the boot images of the model
Images ==
    ScenarioImages \cup IllegalLoadImages \cup MemoryFaultImages
      \cup TopOfMemoryImages \cup PcRelativeImages \cup DiscardedImages
      \cup
    UNION { { Prologue \o body \o tail : body \in SeqsUpTo(pool, MaxBody),
                                         tail \in Epilogues } : pool \in Pools }

\* the bytes of a boot image given as 32-bit little-endian words
RECURSIVE ImageBytes(_)
ImageBytes(words) ==
    IF words = << >> THEN << >>
    ELSE to_le_bytes(Head(words), 4) \o ImageBytes(Tail(words))

\* ------------------------------------------------------------------------
\* The run loop of ExecutionEnvironment::run

VARIABLES
    processor,   \* ExecutionEnvironment.processor: hart, mmu, load, prev_pc
    log_bus,     \* the log records broadcast so far, in order
    run_state,   \* "running", "returned" (run has returned) or "panicked"
    trace,       \* what each step of the run did, in order
    control_rx,  \* ExecutionEnvironment.control_rx: messages not yet received
    clock_rx,    \* ManualClock.control_rx: messages not yet received
    fixed_clock, \* the FixedClock of the run loop, None with another clock
    now          \* Instant::now(), in units of time since the start

vars ==
    << processor, log_bus, run_state, trace, control_rx, clock_rx,
       fixed_clock, now >>

\* InstructionLog::Ok
LogOk(instr, registers, pc) ==
    [kind |-> "Ok", instr |-> instr, registers |-> registers, pc |-> pc]

\* InstructionLog::Exception
LogException(exception, registers, pc) ==
    [kind |-> "Exception", exception |-> exception, registers |-> registers,
     pc |-> pc]

\* the record of one processor cycle: the pc it fetched from, the pending
\* instruction, the hart's prev_pc, the deferred load and the processor's
\* previous pc it started with, its outcome,
\* what it did, the pc, registers and RAM it left, and the position of its
\* log record on the log bus (0 when the thread panicked)
CycleStep(p, r, log) ==
    [kind |-> "cycle", pc |-> p.hart.pc, pending |-> p.hart.next_instr,
     hart_prev_pc |-> p.hart.prev_pc,
     load |-> p.load, prev_pc |-> p.prev_pc, result |-> r.kind,
     err |-> IF r.kind = "err" THEN r.err ELSE "",
     err_pc |-> IF r.kind = "err" THEN r.pc ELSE 0,
     events |-> r.events,
     pc_after |-> r.p.hart.pc,
     registers |-> get_registers(r.p.hart.registers),
     ram |-> r.p.mmu.ram,
     log |-> log]

\* the record of a reset
ResetStep(p) ==
    [kind |-> "reset", pc |-> p.hart.pc, pending |-> p.hart.next_instr,
     hart_prev_pc |-> p.hart.prev_pc,
     load |-> p.load, prev_pc |-> p.prev_pc, result |-> "ok", err |-> "",
     err_pc |-> 0,
     events |-> CycleEvents(FALSE, None, FALSE, FALSE, None, FALSE),
     pc_after |-> 0,
     registers |-> get_registers(p.hart.registers),
     ram |-> p.mmu.ram,
     log |-> 0]

NumResets == Cardinality({ i \in 1 .. Len(trace) : trace[i].kind = "reset" })

\* ExecutionEnvironment::new on a boot image, with the configured RAM size
Init ==
    /\ \E words \in Images :
          processor = Processor_new(ImageBytes(words), RamSize)
    /\ log_bus = << >>
    /\ run_state = "running"
    /\ trace = << >>
    /\ control_rx = << >>
    /\ clock_rx = << >>
    /\ fixed_clock = None
    /\ now = 0

\* the log record broadcast for the result r of Processor::cycle
LogRecord(r) ==
    IF r.kind = "ok"
    THEN LogOk(r.p.hart.last_instr, get_registers(r.p.hart.registers),
               r.p.hart.prev_pc)
    ELSE LogException(r.err, get_registers(r.p.hart.registers), r.pc)

\* the run loop after Processor::cycle has given r: an Ok or an Exception
\* record is broadcast, and run returns after an exception
Broadcast(r) ==
    /\ processor' = r.p
    /\ log_bus' = IF r.kind = "panic" THEN log_bus
                  ELSE Append(log_bus, LogRecord(r))
    /\ run_state' = CASE r.kind = "ok" -> "running"
                      [] r.kind = "err" -> "returned"
                      [] r.kind = "panic" -> "panicked"
    /\ trace' = Append(trace, CycleStep(processor, r,
                          IF r.kind = "panic" THEN 0 ELSE Len(log_bus) + 1))

\* one iteration of the loop of ExecutionEnvironment::run with no control
\* message pending: a processor cycle and the broadcast of its log record
RunCycle ==
    /\ run_state = "running"
    /\ Len(trace) < MaxSteps
    /\ Broadcast(Processor_cycle(processor))
    /\ UNCHANGED << control_rx, clock_rx, fixed_clock, now >>

\* the loop of ExecutionEnvironment::run receives ControlMessage::Reset
ControlReset ==
    /\ run_state = "running"
    /\ Len(trace) < MaxSteps
    /\ NumResets < MaxResets
    /\ processor' = Processor_reset(processor)
    /\ trace' = Append(trace, ResetStep(processor))
    /\ UNCHANGED << log_bus, run_state, control_rx, clock_rx,
                    fixed_clock, now >>

Next == RunCycle \/ ControlReset

Spec == Init /\ [][Next]_vars

\* ------------------------------------------------------------------------
\* Properties
\* ------------------------------------------------------------------------

\* the values stored to a register in the properties below
StoredValues == { -1, 0, 5, MinI32, MaxI32 }

\* the registers and the RAM the i-th step of the run started with
RegistersBefore(i) ==
    IF i = 1 THEN get_registers(Hart_new_registers) ELSE trace[i - 1].registers

RamBefore(i) == IF i = 1 THEN RAM_new(RamSize) ELSE trace[i - 1].ram

\* the steps of the run that are processor cycles
Cycles == { i \in 1 .. Len(trace) : trace[i].kind = "cycle" }

\* the cycles in which execute was called on an instruction with operation op
Executed(op) ==
    { i \in Cycles : /\ trace[i].events.executed
                     /\ trace[i].pending.some.val.op = op }

\* C1: register 0 reads 0 in every reachable hart state, in every register
\* snapshot of the run and of the log, whatever has executed; a store to it
\* returns 0 and leaves the cell, hence the value read, unchanged.
C1_ZeroRegister ==
    /\ RegLoad(processor.hart.registers, 0) = 0
    /\ \A i \in 1 .. Len(trace) : trace[i].registers[1] = 0
    /\ \A i \in 1 .. Len(log_bus) : log_bus[i].registers[1] = 0
    /\ \A v \in StoredValues :
          /\ Register_store(processor.hart.registers[0], v).ret = 0
          /\ Register_store(processor.hart.registers[0], v).reg
                = processor.hart.registers[0]
          /\ RegLoad(RegStore(processor.hart.registers, 0, v), 0) = 0

\* C1 witness: an addi with rd = 0 and a nonzero result and, after it, a
\* jump with rd = 0 have been executed without error
C1_Witness ==
    \E i \in Executed("addi"), j \in Executed("jal") :
        /\ i < j
        /\ trace[i].result = "ok" /\ trace[j].result = "ok"
        /\ trace[i].pending.some.val.dest = 0
        /\ trace[i].pending.some.val.imm = 5
        /\ trace[j].pending.some.val.dest = 0

\* a load into x0 of a nonzero word has been executed without error
C1_LoadIntoZero ==
    \E i \in Executed("load") :
        /\ trace[i].result = "ok"
        /\ trace[i].pending.some.val.dest = 0
        /\ IsSome(trace[i].events.loaded)
        /\ MMU_load([rom |-> processor.mmu.rom, ram |-> RamBefore(i)],
                    trace[i].events.loaded.some).val # 0

\* the instruction on which execute was called in cycle i
ExecutedInstr(i) == trace[i].pending.some.val

\* the value the registers the i-th step started with give for register r
RegBefore(i, r) == RegistersBefore(i)[r + 1]

\* the target of the jal, jalr or branch executed in cycle i
JumpTarget(i) ==
    IF ExecutedInstr(i).op = "jalr"
    THEN LET sum == WrappingAdd(RegBefore(i, ExecutedInstr(i).base),
                                ExecutedInstr(i).offset)
         IN IF sum % 2 = 0 THEN sum ELSE sum - 1
    ELSE WrappingAdd(trace[i - 1].pc, ExecutedInstr(i).offset)

\* whether the instruction executed in cycle i transfers control: a jal, a
\* jalr, or a branch whose condition holds on the registers it started with
Taken(i) ==
    \/ ExecutedInstr(i).op \in {"jal", "jalr"}
    \/ /\ ExecutedInstr(i).op = "branch"
       /\ BranchCondition_holds(ExecutedInstr(i).condition,
                                RegBefore(i, ExecutedInstr(i).src1),
                                RegBefore(i, ExecutedInstr(i).src2))

\* the cycles that executed a jal, a jalr or a branch
ControlTransfers == Executed("jal") \cup Executed("jalr") \cup Executed("branch")

\* C2: starting from pc = 0, hart.pc is a multiple of 4 after any sequence
\* of cycles and resets, and a jal, jalr or taken branch whose target is not
\* a multiple of 4 returns InstructionAddressMisaligned and leaves pc as it
\* was.
C2_PcAligned ==
    /\ processor.hart.pc % 4 = 0
    /\ \A i \in 1 .. Len(trace) :
          trace[i].pc % 4 = 0 /\ trace[i].pc_after % 4 = 0
    /\ \A i \in ControlTransfers :
          (Taken(i) /\ JumpTarget(i) % 4 # 0)
             => /\ trace[i].result = "err"
                /\ trace[i].err = InstructionAddressMisaligned
                /\ trace[i].pc_after = trace[i].pc

\* C2 witness: after a reset taken at a nonzero pc, a jal with a misaligned
\* target has been executed
C2_Witness ==
    \E r \in 1 .. Len(trace), i \in Executed("jal") :
        /\ r < i
        /\ trace[r].kind = "reset" /\ trace[r].pc # 0
        /\ JumpTarget(i) % 4 # 0

\* the cycles in which the executed instruction jumped and which are
\* directly followed by another cycle
JumpCycles ==
    { i \in Cycles : /\ trace[i].result = "ok" /\ trace[i].events.jumped
                     /\ (i + 1) \in Cycles }

\* C3: the cycle after a jump only decodes: the word decoded in the cycle of
\* the jump is no longer pending, nothing is executed, no register and no
\* RAM byte changes, no store is performed, and the Ok log record of that
\* cycle carries no instruction.
C3_JumpBubble ==
    \A i \in JumpCycles :
        /\ trace[i + 1].pending = None
        /\ ~trace[i + 1].events.executed
        /\ trace[i + 1].registers = trace[i].registers
        /\ trace[i + 1].ram = trace[i].ram
        /\ trace[i + 1].events.store = None
        /\ ~trace[i + 1].events.stored
        /\ trace[i + 1].pc = trace[i].pc_after
        /\ trace[i + 1].result = "ok"
              => /\ log_bus[trace[i + 1].log].kind = "Ok"
                 /\ log_bus[trace[i + 1].log].instr = None

\* C3 witness: a jal has jumped over a word that was fetched and decoded in
\* the cycle of the jump, the next cycle has ended with an Ok log record,
\* and the cycle after that has executed the word at the target
C3_Witness ==
    \E i \in JumpCycles :
        /\ ExecutedInstr(i).op = "jal"
        /\ JumpTarget(i) # trace[i].pc
        /\ trace[i + 1].result = "ok"
        /\ (i + 2) \in Cycles
        /\ trace[i + 2].events.executed

\* the memory the i-th step started with
MmuBefore(i) == [rom |-> processor.mmu.rom, ram |-> RamBefore(i)]

\* the cycles that executed a load instruction to completion
LoadCycles == { i \in Executed("load") : trace[i].result = "ok" }

\* the load cycles directly preceded by a cycle that wrote the store of a
\* store instruction of the same width to the address of the load
StoreThenLoad ==
    { i \in LoadCycles :
        /\ (i - 1) \in Executed("store")
        /\ trace[i - 1].events.stored
        /\ trace[i - 1].events.store.some.addr = trace[i].events.loaded.some.addr
        /\ trace[i - 1].events.store.some.access_type = "Word"
        /\ trace[i].events.loaded.some.access_type = "Word" }

\* C4: the deferred load of an instruction is made at the address computed
\* from the registers the previous instruction has left and reads memory as
\* the store of the previous instruction has left it; a store directly
\* followed by a load of the same address gives the load the stored value.
C4_LoadAfterStore ==
    /\ \A i \in LoadCycles :
          /\ trace[i].events.loaded
                = Some(LoadSpec(ExecutedInstr(i).width,
                                WrappingAdd(RegBefore(i, ExecutedInstr(i).base),
                                            ExecutedInstr(i).offset)))
          /\ ExecutedInstr(i).dest # 0
                => trace[i].registers[ExecutedInstr(i).dest + 1]
                      = MMU_load(MmuBefore(i), trace[i].events.loaded.some).val
    /\ \A i \in StoreThenLoad :
          ExecutedInstr(i).dest # 0
             => trace[i].registers[ExecutedInstr(i).dest + 1]
                   = trace[i - 1].events.store.some.value

\* C4 witness: sw x2, 0(x1) directly followed by lw x3, 0(x1) has left the
\* nonzero value of x2 in x3
C4_Witness ==
    \E i \in StoreThenLoad :
        /\ ExecutedInstr(i).dest = 3
        /\ trace[i].registers[4] = -91
        /\ RamBefore(i - 1) # RamBefore(i)

\* the result of fetching a word at the pc the i-th step started with
FetchBefore(i) == load_word(MmuBefore(i), trace[i].pc)

\* the result of the deferred load the i-th step started with
LoadBefore(i) ==
    IF IsSome(trace[i].load) THEN MMU_load(MmuBefore(i), trace[i].load.some)
    ELSE Ok(0)

\* the i-th step has changed neither the hart's pc, nor a register, nor RAM
NothingDone(i) ==
    /\ ~trace[i].events.executed
    /\ ~trace[i].events.stored
    /\ trace[i].pc_after = trace[i].pc
    /\ trace[i].registers = RegistersBefore(i)
    /\ trace[i].ram = RamBefore(i)

\* the cycles whose fetch fails, and those whose fetch succeeds and whose
\* deferred load fails
FetchFailures == { i \in Cycles : FetchBefore(i).kind = "err" }

LoadFailures ==
    { i \in Cycles : FetchBefore(i).kind = "ok" /\ LoadBefore(i).kind = "err" }

\* C5: a cycle fetches, performs the deferred load, lets the hart decode and
\* execute, and stores, in this order: when the fetch fails the cycle
\* returns the fetch's error and neither loads, executes nor stores; when
\* the deferred load fails the cycle returns its error and neither executes
\* nor stores; a store is written only after a fetch and an execute.
C5_StepOrder ==
    /\ \A i \in FetchFailures :
          /\ trace[i].result = "err"
          /\ trace[i].err = FetchBefore(i).err
          /\ trace[i].err_pc = trace[i].pc
          /\ ~trace[i].events.fetched
          /\ trace[i].events.loaded = None
          /\ NothingDone(i)
    /\ \A i \in LoadFailures :
          /\ trace[i].result = "err"
          /\ trace[i].err = LoadBefore(i).err
          /\ trace[i].err_pc = trace[i].prev_pc
          /\ NothingDone(i)
    /\ \A i \in Cycles :
          /\ trace[i].events.stored => trace[i].events.executed
          /\ trace[i].events.executed => trace[i].events.fetched
          /\ IsSome(trace[i].events.loaded) => trace[i].events.fetched

\* C5 witness: a fetch has failed in a cycle that started with a load
\* instruction pending and its deferred load requested
C5_Witness ==
    \E i \in FetchFailures :
        /\ IsSome(trace[i].pending)
        /\ trace[i].pending.some.kind = "ok"
        /\ trace[i].pending.some.val.op = "load"
        /\ trace[i].pending.some.val.dest # 0
        /\ IsSome(trace[i].load)
        /\ LoadBefore(i).kind = "ok"

\* the cycles that returned the exception e
Raised(e) == { i \in Cycles : trace[i].result = "err" /\ trace[i].err = e }

\* the cycles in which execute raised an exception
ExecuteExceptions ==
    { i \in Raised(EnvironmentCall) \cup Raised(EnvironmentBreak)
              \cup Raised(InstructionAddressMisaligned) :
        trace[i].events.executed }

\* the cycles that returned the decode error of the pending word
DecodeExceptions ==
    { i \in Raised(IllegalInstruction) :
        IsSome(trace[i].pending) /\ trace[i].pending.some.kind = "err" }

\* the address the word pending at the start of cycle i was fetched from:
\* the pc of the cycle before, which fetched and decoded it
PendingAddress(i) == trace[i - 1].pc

\* C6: the pc returned with an exception raised by execute (ecall, ebreak,
\* a misaligned jal, jalr or branch) is the address the faulting
\* instruction was fetched from.
C6_ExceptionPc ==
    \A i \in ExecuteExceptions : trace[i].err_pc = PendingAddress(i)

\* C7: a word that does not decode and is not discarded by a jump makes the
\* cycle that would execute it return IllegalInstruction with the address of
\* that word as pc.
C7_IllegalInstructionPc ==
    \A i \in DecodeExceptions : trace[i].err_pc = PendingAddress(i)

\* the number of words of the boot image and its word at index j (from 0)
ImageLen == Len(processor.mmu.rom) \div 4

ImageWord(j) == i32_from_le_bytes(SubSeq(processor.mmu.rom, 4 * j + 1, 4 * j + 4))

\* the operations that neither jump, nor touch memory, nor raise
StraightOps == OpImmOps \cup OpOps \cup {"slli", "sri", "lui", "auipc"}

\* the boot image is k >= 0 such instructions followed by ecall as its final
\* word
StraightLineThenEcall ==
    /\ ImageLen >= 1
    /\ ImageWord(ImageLen - 1) = 115
    /\ \A j \in 0 .. (ImageLen - 2) :
          /\ Hart_decode(ImageWord(j), 4 * j).kind = "ok"
          /\ Hart_decode(ImageWord(j), 4 * j).val.op \in StraightOps

\* C8: on a boot image of k jump-free instructions that raise nothing,
\* followed by ecall as the final word, the run (without resets) ends with
\* an Exception log record carrying EnvironmentCall and pc = 4 * k.
C8_EcallEndsRun ==
    (StraightLineThenEcall /\ NumResets = 0 /\ run_state = "returned")
        => /\ log_bus[Len(log_bus)].kind = "Exception"
           /\ log_bus[Len(log_bus)].exception = EnvironmentCall
           /\ log_bus[Len(log_bus)].pc = 4 * (ImageLen - 1)

\* the cycles that executed a branch whose condition does not hold
UntakenBranches == { i \in Executed("branch") : ~Taken(i) }

\* the cycles that executed a branch whose condition holds and whose target
\* is a multiple of 4
TakenBranches ==
    { i \in Executed("branch") : Taken(i) /\ JumpTarget(i) % 4 = 0 }

\* C9: after a taken branch with an aligned target the hart continues at
\* branch address + imm_b, and the next cycle executes nothing; after a
\* branch whose condition is false the hart continues with the instruction
\* at branch address + 4, which stays pending, with no bubble.
C9_BranchSuccessor ==
    /\ \A i \in TakenBranches :
          /\ trace[i].result = "ok"
          /\ trace[i].pc_after = JumpTarget(i)
          /\ (i + 1) \in Cycles => ~trace[i + 1].events.executed
    /\ \A i \in UntakenBranches :
          /\ trace[i].result = "ok"
          /\ ~trace[i].events.jumped
          /\ trace[i].pc_after = WrappingAdd(trace[i].pc, 4)
          /\ (i + 1) \in Cycles
                => trace[i + 1].pending
                      = Some(Hart_decode(FetchBefore(i).val, trace[i].pc))

\* the number of bytes of a memory access type
AccessBytes(access_type) ==
    CASE access_type = "Word" -> 4
      [] access_type \in {"SignedHalfWord", "UnsignedHalfWord"} -> 2
      [] access_type \in {"SignedByte", "UnsignedByte"} -> 1

\* the cycles that wrote a store to RAM
RamStores ==
    { i \in Cycles : trace[i].events.stored /\ trace[i].events.store.some.addr < 0 }

\* the RAM offset of the store written in cycle i
StoreOffset(i) == Low31(trace[i].events.store.some.addr)

\* C10: a store writes exactly the low width bytes of its value, in
\* little-endian order, at its address, and leaves every other byte of RAM
\* as it was: one byte for sb, two for sh, four for sw.
C10_StoreWidth ==
    \A i \in RamStores :
        \A k \in 1 .. Len(trace[i].ram) :
            trace[i].ram[k] =
                IF /\ k > StoreOffset(i)
                   /\ k <= StoreOffset(i)
                            + AccessBytes(trace[i].events.store.some.access_type)
                THEN to_le_bytes(trace[i].events.store.some.value,
                                 4)[k - StoreOffset(i)]
                ELSE RamBefore(i)[k]

\* ------------------------------------------------------------------------
\* The memory interface on its own: raw and typed loads and stores through
\* the MMU of a new execution environment, at addresses of the whole 32-bit
\* address space
\* ------------------------------------------------------------------------

\* the number of accesses of a run of the memory interface
MaxAccesses == 2

\* the boot images behind the MMU
MmuImages == { Prologue, << 5243027, 3178771, 115 >> }

\* the start addresses: the first and the last two bytes of the boot image,
\* the top of the lower half, the first and the last two bytes of RAM and
\* the top of the address space (0xfffffffc, 0xffffffff)
MmuAddresses(mmu) ==
    { 0, Len(mmu.rom) - 2, MaxI32 - 1,
      MinI32, MinI32 + (Len(mmu.ram) - 2), -4, -1 }

\* the lengths of the raw loads
RawLengths == { 0, 2 }

\* the raw stores: the length of the range and the bytes given; the last
\* one gives fewer bytes than the range has
RawStores ==
    { [n |-> 0, values |-> << >>],
      [n |-> 2, values |-> << 17, 34 >>],
      [n |-> 2, values |-> << 17 >>] }

\* the access types of LoadSpec and StoreSpec
MemoryAccessTypes ==
    { "Word", "SignedHalfWord", "UnsignedHalfWord", "SignedByte",
      "UnsignedByte" }

\* the access types a StoreSpec is built with (StoreInstruction::new)
StoreAccessTypes == { "Word", "SignedHalfWord", "SignedByte" }

\* the values of the typed stores: 0xffffffa5
TypedStoreValues == { -91 }

\* the devices after a store with result r: a store that succeeds has
\* written the device selected by the top bit of its start address
MMU_after_store(mmu, start, r) ==
    IF r.kind # "ok" THEN mmu
    ELSE IF TopBit(start) = 0 THEN [mmu EXCEPT !.rom = r.val]
    ELSE [mmu EXCEPT !.ram = r.val]

\* the record of one access: what was asked, the devices before it, its
\* result and the devices after it
AccessStep(kind, start, n, values, access_type, before, r, after) ==
    [kind |-> kind, start |-> start, n |-> n, values |-> values,
     access_type |-> access_type, before |-> before, result |-> r,
     after |-> after]

\* an access has been made: the devices are updated and a panic ends the run
Access(step) ==
    /\ processor' = [processor EXCEPT !.mmu = step.after]
    /\ trace' = Append(trace, step)
    /\ run_state' = IF step.result.kind = "panic" THEN "panicked"
                    ELSE run_state
    /\ UNCHANGED << log_bus, control_rx, clock_rx, fixed_clock, now >>

\* ExecutionEnvironment::new on a boot image; no cycle is run
InitMMU ==
    /\ \E words \in MmuImages :
          processor = Processor_new(ImageBytes(words), RamSize)
    /\ log_bus = << >>
    /\ run_state = "running"
    /\ trace = << >>
    /\ control_rx = << >>
    /\ clock_rx = << >>
    /\ fixed_clock = None
    /\ now = 0

\* MMU::load_raw
LoadRaw ==
    /\ run_state = "running"
    /\ Len(trace) < MaxAccesses
    /\ \E start \in MmuAddresses(processor.mmu), n \in RawLengths :
          Access(AccessStep("load_raw", start, n, << >>, "", processor.mmu,
                            MMU_load_raw(processor.mmu, start, n),
                            processor.mmu))

\* MMU::store_raw
StoreRaw ==
    /\ run_state = "running"
    /\ Len(trace) < MaxAccesses
    /\ \E start \in MmuAddresses(processor.mmu), s \in RawStores :
          Access(AccessStep("store_raw", start, s.n, s.values, "",
                    processor.mmu,
                    MMU_store_raw(processor.mmu, start, s.n, s.values),
                    MMU_after_store(processor.mmu, start,
                        MMU_store_raw(processor.mmu, start, s.n, s.values))))

\* MMU::load
Load ==
    /\ run_state = "running"
    /\ Len(trace) < MaxAccesses
    /\ \E start \in MmuAddresses(processor.mmu), t \in MemoryAccessTypes :
          Access(AccessStep("load", start, AccessBytes(t), << >>, t,
                            processor.mmu,
                            MMU_load(processor.mmu, LoadSpec(t, start)),
                            processor.mmu))

\* MMU::store
Store ==
    /\ run_state = "running"
    /\ Len(trace) < MaxAccesses
    /\ \E start \in MmuAddresses(processor.mmu), t \in StoreAccessTypes,
          value \in TypedStoreValues :
          Access(AccessStep("store", start, AccessBytes(t),
                    to_le_bytes(value, AccessBytes(t)), t,
                    processor.mmu,
                    MMU_store(processor.mmu, StoreSpec(t, start, value)),
                    MMU_after_store(processor.mmu, start,
                        MMU_store(processor.mmu,
                                  StoreSpec(t, start, value)))))

NextMMU == LoadRaw \/ StoreRaw \/ Load \/ Store

SpecMMU == InitMMU /\ [][NextMMU]_vars

\* the accesses of the run that are stores, and those that are loads
StoreAccesses ==
    { i \in 1 .. Len(trace) : trace[i].kind \in {"store_raw", "store"} }

LoadAccesses ==
    { i \in 1 .. Len(trace) : trace[i].kind \in {"load_raw", "load"} }

\* C11: every store, raw or typed, of any width, inside or outside the boot
\* image, whose start address has the top bit clear gives
\* InvalidMemoryAccess(ReadOnly) and leaves the boot image and the RAM as
\* they were; the boot image keeps its initial content over the whole run.
C11_ReadOnlyBootImage ==
    /\ \A i \in StoreAccesses :
          trace[i].start >= 0 =>
             /\ trace[i].result = Err(ReadOnly)
             /\ trace[i].after = trace[i].before
    /\ \A i \in 1 .. Len(trace) :
          /\ trace[i].after.rom = trace[1].before.rom
          /\ processor.mmu.rom = trace[1].before.rom

\* C11 witness: a raw store of two bytes inside the boot image, then a
\* typed word store that crosses its end
C11_Witness ==
    /\ Len(trace) = 2
    /\ trace[1].kind = "store_raw" /\ trace[1].start = 0
    /\ trace[1].values = << 17, 34 >>
    /\ trace[2].kind = "store" /\ trace[2].access_type = "Word"
    /\ trace[2].start = Len(processor.mmu.rom) - 2

\* the raw stores of the run whose range lies inside the RAM and whose
\* bytes are as many as the range has
RamRoundTrips ==
    { i \in 1 .. Len(trace) :
        /\ trace[i].kind = "store_raw"
        /\ trace[i].start < 0
        /\ Low31(trace[i].start) <= Len(trace[i].before.ram) - trace[i].n
        /\ Len(trace[i].values) = trace[i].n }

\* C12: a raw store of s to a range inside the RAM succeeds, a raw load of
\* the same range right after it returns s, every RAM byte outside the
\* range keeps its value, and the RAM of a new environment is all zero.
C12_RamRoundTrip ==
    /\ \A i \in RamRoundTrips :
          /\ trace[i].result.kind = "ok"
          /\ MMU_load_raw(trace[i].after, trace[i].start, trace[i].n)
                = Ok(trace[i].values)
          /\ Len(trace[i].after.ram) = Len(trace[i].before.ram)
          /\ \A k \in 1 .. Len(trace[i].before.ram) :
                (k <= Low31(trace[i].start)
                   \/ k > Low31(trace[i].start) + trace[i].n)
                => trace[i].after.ram[k] = trace[i].before.ram[k]
          /\ (/\ i < Len(trace)
              /\ trace[i + 1].kind = "load_raw"
              /\ trace[i + 1].start = trace[i].start
              /\ trace[i + 1].n = trace[i].n)
             => trace[i + 1].result = Ok(trace[i].values)
    /\ (IF trace = << >> THEN processor.mmu.ram ELSE trace[1].before.ram)
          = [k \in 1 .. RamSize |-> 0]

\* C12 witness: two bytes are stored to the last two bytes of the RAM and
\* the same range is loaded
C12_Witness ==
    /\ Len(trace) = 2
    /\ 1 \in RamRoundTrips
    /\ trace[1].start = MinI32 + (RamSize - 2)
    /\ trace[1].values = << 17, 34 >>
    /\ trace[2].kind = "load_raw"
    /\ trace[2].start = trace[1].start /\ trace[2].n = 2

\* a raw store inside a RAM that is no longer all zero: the bytes of an
\* earlier word store next to the range are kept
C12_StoreOverStore ==
    /\ Len(trace) = 2
    /\ trace[1].kind = "store" /\ trace[1].access_type = "Word"
    /\ trace[1].start = MinI32
    /\ 2 \in RamRoundTrips
    /\ trace[2].start = MinI32 /\ trace[2].n = 2
    /\ SubSeq(trace[2].after.ram, 1, 4) = << 17, 34, 255, 255 >>

\* the accesses whose byte range start .. start + n is not entirely inside
\* the device selected by the top bit of start
OutsideDevice ==
    { i \in 1 .. Len(trace) :
        IF trace[i].start >= 0
        THEN trace[i].start > Len(trace[i].before.rom) - trace[i].n
        ELSE Low31(trace[i].start) > Len(trace[i].before.ram) - trace[i].n }

\* C13: every load, and every store to an address with the top bit set,
\* whose byte range is not entirely inside the device gives
\* InvalidMemoryAccess(OutOfBounds) and leaves the memory unchanged, also
\* at the top of the address space; it never gives data and never panics.
C13_OutOfBounds ==
    \A i \in OutsideDevice :
        (i \in LoadAccesses \/ trace[i].start < 0) =>
           /\ trace[i].result = Err(OutOfBounds)
           /\ trace[i].after = trace[i].before

\* the accesses outside the device that end below the top of the address
\* space behave as C13 states
C13_BelowTop ==
    \A i \in OutsideDevice :
        (/\ i \in LoadAccesses \/ trace[i].start < 0
         /\ trace[i].start \notin {-4, -1}) =>
           /\ trace[i].result = Err(OutOfBounds)
           /\ trace[i].after = trace[i].before

\* a word load at 0xfffffffc has panicked
C13_WordLoadAtTopPanics ==
    \E i \in LoadAccesses :
        /\ trace[i].kind = "load" /\ trace[i].access_type = "Word"
        /\ trace[i].start = -4
        /\ trace[i].result = Panic

\* a word store at 0xfffffffc has given LengthMismatch
C13_WordStoreAtTopMismatch ==
    \E i \in StoreAccesses :
        /\ trace[i].kind = "store" /\ trace[i].access_type = "Word"
        /\ trace[i].start = -4
        /\ trace[i].result = Err(LengthMismatch)

\* the device an access is served by and its offset in that device
Device(i) ==
    IF trace[i].start >= 0 THEN trace[i].before.rom ELSE trace[i].before.ram

DeviceOffset(i) == IF trace[i].start >= 0 THEN trace[i].start
                   ELSE Low31(trace[i].start)

\* the MMU with the device that the start address of access i does not
\* select taken away
OwnDeviceOnly(i) ==
    IF trace[i].start >= 0
    THEN [rom |-> trace[i].before.rom, ram |-> << >>]
    ELSE [rom |-> << >>, ram |-> trace[i].before.ram]

\* the loads from the boot image give the same on the devices a and b
SameBootImageLoads(a, b) ==
    /\ \A start \in { 0, Len(a.rom) - 2 }, n \in { 1, 2 } :
          MMU_load_raw(a, start, n) = MMU_load_raw(b, start, n)
    /\ \A t \in MemoryAccessTypes :
          MMU_load(a, LoadSpec(t, 0)) = MMU_load(b, LoadSpec(t, 0))

\* C14: an access whose address has the top bit clear is served by the boot
\* image alone, at offset addr; one whose address has the top bit set by the
\* RAM alone, at offset addr & 0x7fffffff.  A load gives the bytes of its
\* device at that offset or no data, and gives the same without the other
\* device; a store that succeeds writes the RAM at that offset and nothing
\* else, and changes the result of no load from the boot image.
C14_Partition ==
    /\ \A i \in LoadAccesses :
          /\ trace[i].result
                = IF trace[i].kind = "load_raw"
                  THEN MMU_load_raw(OwnDeviceOnly(i), trace[i].start,
                                    trace[i].n)
                  ELSE MMU_load(OwnDeviceOnly(i),
                                LoadSpec(trace[i].access_type, trace[i].start))
          /\ trace[i].kind = "load_raw" =>
                IF i \in OutsideDevice THEN trace[i].result.kind # "ok"
                ELSE trace[i].result
                        = Ok(SubSeq(Device(i), DeviceOffset(i) + 1,
                                    DeviceOffset(i) + trace[i].n))
    /\ \A i \in StoreAccesses :
          /\ trace[i].after.rom = trace[i].before.rom
          /\ SameBootImageLoads(trace[i].after, trace[i].before)
          /\ trace[i].result.kind = "ok" =>
                /\ trace[i].start < 0
                /\ \A k \in 1 .. Len(trace[i].values) :
                      trace[i].after.ram[DeviceOffset(i) + k]
                         = trace[i].values[k]
    /\ \A i \in 1 .. Len(trace) - 1 :
          (/\ i \in StoreAccesses /\ trace[i].start < 0
           /\ trace[i + 1].kind = "load" /\ trace[i + 1].start >= 0)
          => trace[i + 1].result
                = MMU_load(trace[i].before,
                           LoadSpec(trace[i + 1].access_type,
                                    trace[i + 1].start))

\* C14 witness: a word is stored at 0x80000000 and a word is then loaded
\* from 0x00000000; it is the first word of the boot image, not the one
\* stored
C14_Witness ==
    /\ Len(trace) = 2
    /\ trace[1].kind = "store" /\ trace[1].access_type = "Word"
    /\ trace[1].start = MinI32 /\ trace[1].result.kind = "ok"
    /\ trace[2].kind = "load" /\ trace[2].access_type = "Word"
    /\ trace[2].start = 0
    /\ trace[2].result.kind = "ok"
    /\ trace[2].result.val # i32_from_le_bytes(trace[1].values)
    /\ to_le_bytes(trace[2].result.val, 4) = SubSeq(processor.mmu.rom, 1, 4)

\* the cycles that start with a word of the LOAD opcode pending: the cycle
\* before fetched it and decoded it and did not jump
LoadWordCycles ==
    { i \in Cycles :
        /\ i > 1
        /\ trace[i - 1].kind = "cycle"
        /\ trace[i - 1].result = "ok"
        /\ ~trace[i - 1].events.jumped
        /\ FetchBefore(i - 1).kind = "ok"
        /\ MaskBits(FetchBefore(i - 1).val, 0, 6) = 3 }

\* bits 12 to 14 of the word pending in cycle i
Funct3(i) == MaskBits(Shr(FetchBefore(i - 1).val, 12), 0, 2)

\* the width a LOAD has for its funct3
FunctWidth(f) ==
    CASE f = 0 -> "SignedByte"
      [] f = 1 -> "SignedHalfWord"
      [] f = 2 -> "Word"
      [] f = 4 -> "UnsignedByte"
      [] f = 5 -> "UnsignedHalfWord"

\* the value of the bytes b read little-endian with the extension of the
\* access type
ExtendedValue(b, access_type) ==
    CASE access_type = "Word" -> i32_from_le_bytes(b)
      [] access_type = "SignedHalfWord" ->
            IF b[2] >= 128 THEN b[1] + 256 * b[2] - 65536
            ELSE b[1] + 256 * b[2]
      [] access_type = "UnsignedHalfWord" -> b[1] + 256 * b[2]
      [] access_type = "SignedByte" -> IF b[1] >= 128 THEN b[1] - 256 ELSE b[1]
      [] access_type = "UnsignedByte" -> b[1]

\* the address of the LOAD pending in cycle i: base register plus offset
LoadAddress(i) ==
    WrappingAdd(RegBefore(i, ExecutedInstr(i).base), ExecutedInstr(i).offset)

\* the bytes at the address of the LOAD pending in cycle i, as many as its
\* funct3 asks for
LoadBytes(i) ==
    MMU_load_raw(MmuBefore(i), LoadAddress(i),
                 AccessBytes(FunctWidth(Funct3(i))))

\* C15: a LOAD word with funct3 000, 001, 010, 100 or 101 decodes to a load
\* of a byte, half-word, word, unsigned byte or unsigned half-word; the read
\* is made once, in the cycle after the one that decoded it and before its
\* execute, with that width at base + offset, and rd gets the bytes read,
\* little-endian, sign-extended for b and h and zero-extended for bu and hu.
\* A LOAD word with another funct3 decodes to IllegalInstruction.
C15_LoadWidth ==
    /\ \A i \in LoadWordCycles :
          IF Funct3(i) \in {0, 1, 2, 4, 5}
          THEN /\ trace[i].pending.some.kind = "ok"
               /\ ExecutedInstr(i).op = "load"
               /\ trace[i].load
                     = Some(LoadSpec(FunctWidth(Funct3(i)), LoadAddress(i)))
               /\ ~IsSome(trace[i - 1].events.loaded)
                     \/ (i - 1) \in LoadWordCycles
               /\ trace[i].events.executed =>
                     /\ trace[i].events.loaded = trace[i].load
                     /\ LoadBytes(i).kind = "ok"
                     /\ ExecutedInstr(i).dest # 0 =>
                           trace[i].registers[ExecutedInstr(i).dest + 1]
                              = ExtendedValue(LoadBytes(i).val,
                                              FunctWidth(Funct3(i)))
          ELSE /\ trace[i].pending = Some(Err(IllegalInstruction))
               /\ trace[i].load = None
               /\ ~trace[i].events.executed
               /\ FetchBefore(i).kind = "ok" =>
                     /\ trace[i].result = "err"
                     /\ trace[i].err = IllegalInstruction
    /\ \A i \in Cycles :
          /\ IsSome(trace[i].load) => i \in LoadWordCycles
          /\ IsSome(trace[i].events.loaded) =>
                trace[i].events.loaded = trace[i].load

\* C15 witness: after sw x2, 0(x1) with x2 = 0xffffffa5, lb x3, 0(x1) has
\* read the one byte 0xa5 and left x3 = 0xffffffa5
C15_Witness ==
    \E i \in LoadWordCycles :
        /\ Funct3(i) = 0
        /\ trace[i].result = "ok"
        /\ trace[i].events.loaded = Some(LoadSpec("SignedByte", MinI32))
        /\ LoadBytes(i) = Ok(<< 165 >>)
        /\ trace[i].registers[4] = -91

\* lhu x3, 0(x1) after the same store has left x3 = 0x0000ffa5
C15_ZeroExtended ==
    \E i \in LoadWordCycles :
        /\ Funct3(i) = 5
        /\ trace[i].result = "ok"
        /\ LoadBytes(i) = Ok(<< 165, 255 >>)
        /\ trace[i].registers[4] = 65445

\* a LOAD word with funct3 = 110 has ended the run with IllegalInstruction
C15_IllegalWidth ==
    \E i \in LoadWordCycles :
        /\ Funct3(i) = 6
        /\ trace[i].err = IllegalInstruction

\* the cycles whose fetch and deferred load succeed, whose execute gives a
\* store, and whose write-back of that store fails
StoreFailures ==
    { i \in Cycles :
        /\ trace[i].result = "err"
        /\ trace[i].events.executed
        /\ IsSome(trace[i].events.store)
        /\ ~trace[i].events.stored }

\* the word pending in cycle i was fetched and decoded by the cycle before
DecodedBefore(i) ==
    /\ i > 1
    /\ trace[i - 1].kind = "cycle"
    /\ trace[i - 1].result = "ok"
    /\ FetchBefore(i - 1).kind = "ok"
    /\ trace[i].pending
          = Some(Hart_decode(FetchBefore(i - 1).val, trace[i - 1].pc))

\* C16: the error of a deferred load and the error of the write-back of a
\* store are returned with the address the LOAD or STORE that asked for the
\* access was fetched from, also when it is the first instruction after a
\* jump or a reset; the error of a fetch is returned with the address
\* fetched.
C16_MemoryErrorPc ==
    /\ \A i \in FetchFailures :
          /\ trace[i].err = FetchBefore(i).err
          /\ trace[i].err_pc = trace[i].pc
    /\ \A i \in LoadFailures :
          /\ DecodedBefore(i)
          /\ ExecutedInstr(i).op = "load"
          /\ trace[i].err = LoadBefore(i).err
          /\ trace[i].err_pc = PendingAddress(i)
    /\ \A i \in StoreFailures :
          /\ DecodedBefore(i)
          /\ ExecutedInstr(i).op = "store"
          /\ trace[i].err
                = MMU_store(MmuBefore(i), trace[i].events.store.some).err
          /\ trace[i].err_pc = PendingAddress(i)

\* the step before the cycle that fetched the word pending in cycle i was a
\* jump to it
FirstAfterJump(i) ==
    /\ i > 2
    /\ trace[i - 2].kind = "cycle"
    /\ trace[i - 2].events.jumped
    /\ trace[i - 2].pc_after = trace[i - 1].pc

\* the step before the cycle that fetched the word pending in cycle i was a
\* reset of a processor that had run
FirstAfterReset(i) ==
    /\ i > 3
    /\ trace[i - 2].kind = "reset"
    /\ trace[i - 2].pc # 0

\* C16 witness: lw x3, 64(x0), the target at address 8 of the jal at address
\* 0, has failed with OutOfBounds and pc = 8 in the cycle that fetched
\* address 12
C16_Witness ==
    \E i \in LoadFailures :
        /\ FirstAfterJump(i)
        /\ trace[i].pc = 12
        /\ trace[i].err = OutOfBounds
        /\ trace[i].err_pc = 8

\* a store to the boot image that is the target of a jump has failed
C16_StoreAfterJump ==
    \E i \in StoreFailures :
        /\ FirstAfterJump(i)
        /\ trace[i].err = ReadOnly
        /\ trace[i].err_pc = 8

\* a load and a store at address 0 have failed after a reset
C16_LoadAfterReset ==
    \E i \in LoadFailures : FirstAfterReset(i) /\ trace[i].err_pc = 0

C16_StoreAfterReset ==
    \E i \in StoreFailures : FirstAfterReset(i) /\ trace[i].err_pc = 0

\* a fetch beyond the boot image has failed
C16_FetchFailure ==
    \E i \in FetchFailures : trace[i].err_pc = Len(processor.mmu.rom)

\* the steps of the run that are resets
Resets == { i \in 1 .. Len(trace) : trace[i].kind = "reset" }

\* C17: right after Processor::reset the hart's pc and prev_pc are 0, it has
\* no pending and no last instruction, and the processor has no deferred
\* load and previous pc 0; the cycle after a reset fetches the word at
\* address 0, performs no deferred load, executes nothing and writes no
\* store, whatever the processor had done before the reset.
C17_AfterReset ==
    /\ (Len(trace) > 0 /\ Len(trace) \in Resets) =>
          /\ processor.hart.pc = 0
          /\ processor.hart.prev_pc = 0
          /\ processor.hart.next_instr = None
          /\ processor.hart.last_instr = None
          /\ processor.load = None
          /\ processor.prev_pc = 0
    /\ \A i \in Resets :
          (i < Len(trace) /\ trace[i + 1].kind = "cycle") =>
             /\ trace[i + 1].pc = 0
             /\ trace[i + 1].pending = None
             /\ trace[i + 1].load = None
             /\ trace[i + 1].prev_pc = 0
             /\ trace[i + 1].events.fetched
             /\ trace[i + 1].events.loaded = None
             /\ ~trace[i + 1].events.executed
             /\ trace[i + 1].events.store = None
             /\ ~trace[i + 1].events.stored
             /\ trace[i + 1].registers = trace[i].registers
             /\ trace[i + 1].ram = trace[i].ram
             /\ trace[i + 1].result = "ok" =>
                   log_bus[trace[i + 1].log].instr = None

\* C17 witness: a processor with a pending instruction, a deferred load and
\* a pc and a previous pc other than 0 has been reset and has then run a
\* cycle
C17_Witness ==
    \E i \in Resets :
        /\ IsSome(trace[i].pending)
        /\ IsSome(trace[i].load)
        /\ trace[i].pc # 0
        /\ trace[i].prev_pc # 0
        /\ i < Len(trace)
        /\ trace[i + 1].kind = "cycle"
        /\ trace[i + 1].result = "ok"

\* C18: right after a Reset control message has been applied every register
\* reads 0, every RAM byte is 0 and the hart is at the entry point.
C18_ResetClearsState ==
    (Len(trace) > 0 /\ Len(trace) \in Resets) =>
       /\ \A r \in 0 .. 31 : RegLoad(processor.hart.registers, r) = 0
       /\ \A k \in 1 .. Len(processor.mmu.ram) : processor.mmu.ram[k] = 0
       /\ processor.hart.pc = 0

\* a reset leaves the registers and the RAM as they were
C18_ResetKeepsState ==
    \A i \in Resets :
        /\ trace[i].registers = RegistersBefore(i)
        /\ trace[i].ram = RamBefore(i)
        /\ i = Len(trace) =>
              /\ get_registers(processor.hart.registers) = trace[i].registers
              /\ processor.mmu.ram = trace[i].ram

\* a processor with x1 = 0x80000000, x2 = 0xffffffa5 and the RAM bytes
\* a5 ff ff ff has been reset and still has them
C18_StateSurvivesReset ==
    /\ Len(trace) > 0 /\ Len(trace) \in Resets
    /\ RegLoad(processor.hart.registers, 1) = MinI32
    /\ RegLoad(processor.hart.registers, 2) = -91
    /\ SubSeq(processor.mmu.ram, 1, 4) = << 165, 255, 255, 255 >>

\* the number of processor cycles among the first i steps of the run
CycleIndex(i) == Cardinality({ j \in Cycles : j <= i })

\* the log record at position k is the one of cycle i
RecordOf(i, k) ==
    /\ k \in 1 .. Len(log_bus)
    /\ log_bus[k].registers = trace[i].registers
    /\ IF trace[i].result = "ok"
       THEN log_bus[k].kind = "Ok" /\ log_bus[k].pc = trace[i].pc
       ELSE /\ log_bus[k].kind = "Exception"
            /\ log_bus[k].exception = trace[i].err
            /\ log_bus[k].pc = trace[i].err_pc

\* the cycles during which the emulator thread panicked
Panics == { i \in Cycles : trace[i].result = "panic" }

\* C19: the run loop broadcasts exactly one log record for every processor
\* cycle, in the order of the cycles; the first cycle that returns an
\* exception gives one Exception record, which is the last record, and the
\* run loop has then returned.
C19_OneRecordPerCycle ==
    /\ Len(log_bus) = Cardinality(Cycles)
    /\ \A i \in Cycles :
          /\ trace[i].log = CycleIndex(i)
          /\ RecordOf(i, CycleIndex(i))
          /\ trace[i].result # "ok" =>
                /\ i = Len(trace)
                /\ log_bus[Len(log_bus)].kind = "Exception"
                /\ run_state = "returned"
    /\ \A k \in 1 .. Len(log_bus) :
          log_bus[k].kind = "Exception" => k = Len(log_bus)
    /\ run_state = "running" =>
          \A k \in 1 .. Len(log_bus) : log_bus[k].kind = "Ok"

\* the same for the runs whose cycles do not panic
C19_UnlessPanic == Panics = {} => C19_OneRecordPerCycle

\* a cycle has ended in a panic of the emulator thread: no record was
\* broadcast for it and the run loop has not returned
C19_PanicWithoutRecord ==
    \E i \in Panics :
        /\ i = Len(trace)
        /\ Len(log_bus) = Cardinality(Cycles) - 1
        /\ run_state = "panicked"
        /\ trace[i].load = Some(LoadSpec("Word", -4))

\* ------------------------------------------------------------------------
\* The run loop driven by the manual clock.  A controller thread broadcasts
\* control messages on the control bus; ExecutionEnvironment::run and the
\* ManualClock each receive every message through a reader of their own.
\* run_state is the position of the run loop: "running" (receiving control
\* messages at the top of the loop), "next_tick" (ManualClock::next_tick
\* called), "recv" (the clock blocked in recv), "ticked" (next_tick has
\* returned), "returned" or "panicked".  When the controller drops the
\* senders of the bus, "Disconnected" is put at the end of both readers and
\* stays there: a reader receives what was sent before and then
\* Disconnected on every call.
\* ------------------------------------------------------------------------

\* the number of control messages the controller sends
MaxMessages == 2

\* ControlMessage
ControlMessages == { "Halt", "Reset", "ManualTick" }

\* the boot images run with the manual clock
ManualImages ==
    { << 5243027, 3178771, 115 >>,
      Prologue \o << 2138147, 41347, 115, 115 >>,
      << -4185725, 115, 115 >> }            \* lw x3, -4(x0)

\* ClockStatus::Ok and ClockStatus::MissedTicks
ClockStatus_Ok == [status |-> "Ok", missed |-> 0]

ClockStatus_MissedTicks(missed) == [status |-> "MissedTicks", missed |-> missed]

consume_recv_buffer_single(rx, missed) ==
    IF rx = << >>
    THEN [ret |-> None, rx |-> rx]
    ELSE [ret |-> IF Head(rx) = "ManualTick"
                  THEN Some(ClockStatus_MissedTicks(missed + 1))
                  ELSE Some(ClockStatus_Ok),
          rx |-> IF Head(rx) = "Disconnected" THEN rx ELSE Tail(rx)]

\* ManualClock::consume_recv_buffer on the messages rx already received by
\* the reader, after missed ticks: the status to return early with, if any,
\* and the messages left
RECURSIVE consume_recv_buffer(_, _)
consume_recv_buffer(rx, missed) ==
    IF rx = << >>
    THEN [ret |-> IF missed = 0 THEN None
                  ELSE Some(ClockStatus_MissedTicks(missed)),
          rx |-> rx]
    ELSE IF Head(rx) = "ManualTick"
    THEN consume_recv_buffer(Tail(rx), missed + 1)
    ELSE [ret |-> IF missed = 0 THEN Some(ClockStatus_Ok)
                  ELSE Some(ClockStatus_MissedTicks(missed)),
          rx |-> IF Head(rx) = "Disconnected" THEN rx ELSE Tail(rx)]

\* the record of a control message sent: the message, the position of the
\* run loop and whether both readers were empty when it was sent, and the
\* number of log records broadcast so far
SendStep(p, m) ==
    [ResetStep(p) EXCEPT !.kind = "send", !.pc_after = p.hart.pc,
                         !.log = Len(log_bus)]
      @@ [msg |-> m, at |-> run_state,
          idle |-> control_rx = << >> /\ clock_rx = << >>]

\* the control messages sent so far
Sent == { i \in 1 .. Len(trace) : trace[i].kind = "send" }

\* the senders of the control bus have been dropped
Disconnected ==
    control_rx # << >> /\ control_rx[Len(control_rx)] = "Disconnected"

\* the record of a return of ManualClock::next_tick: the messages its reader
\* held when it was called or, after it blocked, when recv returned, whether
\* it blocked in recv, the status returned and the messages left in the
\* reader; with kind "block", the record of next_tick blocking in recv
TickStep(p, queued, blocked, status, left) ==
    [ResetStep(p) EXCEPT !.kind = "tick", !.pc_after = p.hart.pc]
      @@ [queued |-> queued, blocked |-> blocked, status |-> status,
          left |-> left]

\* the returns of ManualClock::next_tick so far
Ticks == { i \in 1 .. Len(trace) : trace[i].kind = "tick" }

\* the calls of ManualClock::next_tick that blocked in recv
Blocks == { i \in 1 .. Len(trace) : trace[i].kind = "block" }

\* ExecutionEnvironment::new on a boot image with a ManualClock
InitManual ==
    /\ \E words \in ManualImages :
          processor = Processor_new(ImageBytes(words), RamSize)
    /\ log_bus = << >>
    /\ run_state = "running"
    /\ trace = << >>
    /\ control_rx = << >>
    /\ clock_rx = << >>
    /\ fixed_clock = None
    /\ now = 0

\* the controller broadcasts m on the control bus while run is running
Send(m) ==
    /\ run_state \in { "running", "next_tick", "recv", "ticked" }
    /\ ~Disconnected
    /\ Cardinality(Sent) < MaxMessages
    /\ m = "Reset" =>
          Cardinality({ i \in Sent : trace[i].msg = "Reset" }) < MaxResets
    /\ control_rx' = Append(control_rx, m)
    /\ clock_rx' = Append(clock_rx, m)
    /\ trace' = Append(trace, SendStep(processor, m))
    /\ UNCHANGED << processor, log_bus, run_state, fixed_clock, now >>

\* the controller drops the senders of the control bus while run is running
DropSenders ==
    /\ run_state \in { "running", "next_tick", "recv", "ticked" }
    /\ ~Disconnected
    /\ control_rx' = Append(control_rx, "Disconnected")
    /\ clock_rx' = Append(clock_rx, "Disconnected")
    /\ trace' = Append(trace, [SendStep(processor, "Disconnected")
                                 EXCEPT !.kind = "drop"])
    /\ UNCHANGED << processor, log_bus, run_state, fixed_clock, now >>

\* run, inner loop: try_recv gives Empty, the clock is asked for a tick
RecvEmpty ==
    /\ run_state = "running"
    /\ control_rx = << >>
    /\ run_state' = "next_tick"
    /\ UNCHANGED << processor, log_bus, trace, control_rx, clock_rx,
                    fixed_clock, now >>

\* run, inner loop: try_recv gives Reset
RecvReset ==
    /\ run_state = "running"
    /\ control_rx # << >> /\ Head(control_rx) = "Reset"
    /\ control_rx' = Tail(control_rx)
    /\ processor' = Processor_reset(processor)
    /\ trace' = Append(trace, ResetStep(processor) @@ [now |-> now])
    /\ UNCHANGED << log_bus, run_state, clock_rx, fixed_clock, now >>

\* run, inner loop: try_recv gives Halt or Disconnected and run returns
RecvHalt ==
    /\ run_state = "running"
    /\ control_rx # << >> /\ Head(control_rx) \in { "Halt", "Disconnected" }
    /\ control_rx' = IF Head(control_rx) = "Disconnected" THEN control_rx
                     ELSE Tail(control_rx)
    /\ run_state' = "returned"
    /\ UNCHANGED << processor, log_bus, trace, clock_rx, fixed_clock, now >>

\* run, inner loop: try_recv gives another message, which is skipped
RecvOther ==
    /\ run_state = "running"
    /\ control_rx # << >>
    /\ Head(control_rx) \notin { "Reset", "Halt", "Disconnected" }
    /\ control_rx' = Tail(control_rx)
    /\ UNCHANGED << processor, log_bus, run_state, trace, clock_rx,
                    fixed_clock, now >>

\* ManualClock::next_tick returns early with the status of
\* consume_recv_buffer
NextTickEarly ==
    /\ run_state = "next_tick"
    /\ IsSome(consume_recv_buffer(clock_rx, 0).ret)
    /\ clock_rx' = consume_recv_buffer(clock_rx, 0).rx
    /\ run_state' = "ticked"
    /\ trace' = Append(trace,
                       TickStep(processor, clock_rx, FALSE,
                                consume_recv_buffer(clock_rx, 0).ret.some,
                                consume_recv_buffer(clock_rx, 0).rx))
    /\ UNCHANGED << processor, log_bus, control_rx, fixed_clock, now >>

\* ManualClock::next_tick finds nothing buffered and blocks in recv
NextTickBlock ==
    /\ run_state = "next_tick"
    /\ ~IsSome(consume_recv_buffer(clock_rx, 0).ret)
    /\ clock_rx' = consume_recv_buffer(clock_rx, 0).rx
    /\ run_state' = "recv"
    /\ trace' = Append(trace,
                       [TickStep(processor, clock_rx, TRUE, ClockStatus_Ok,
                                 consume_recv_buffer(clock_rx, 0).rx)
                          EXCEPT !.kind = "block"])
    /\ UNCHANGED << processor, log_bus, control_rx, fixed_clock, now >>

\* ManualClock::next_tick, blocked in recv, receives ManualTick, Reset,
\* Halt or Disconnected and returns ClockStatus::Ok
NextTickRecv ==
    /\ run_state = "recv"
    /\ clock_rx # << >>
    /\ clock_rx' = IF Head(clock_rx) = "Disconnected" THEN clock_rx
                   ELSE Tail(clock_rx)
    /\ run_state' = "ticked"
    /\ trace' = Append(trace,
                       TickStep(processor, clock_rx, TRUE, ClockStatus_Ok,
                                IF Head(clock_rx) = "Disconnected"
                                THEN clock_rx ELSE Tail(clock_rx)))
    /\ UNCHANGED << processor, log_bus, control_rx, fixed_clock, now >>

\* run, after next_tick has returned: a processor cycle and the broadcast
\* of its log record
ManualCycle ==
    /\ run_state = "ticked"
    /\ Broadcast(Processor_cycle(processor))
    /\ UNCHANGED << control_rx, clock_rx, fixed_clock, now >>

\* the steps of the thread that runs ExecutionEnvironment::run
RunThread ==
    \/ RecvEmpty \/ RecvReset \/ RecvHalt \/ RecvOther
    \/ NextTickEarly \/ NextTickBlock \/ NextTickRecv
    \/ ManualCycle

\* the steps of the thread that holds the senders of the control bus
Controller == (\E m \in ControlMessages : Send(m)) \/ DropSenders

NextManual == Controller \/ RunThread

SpecManual == InitManual /\ [][NextManual]_vars

\* the Halt messages sent while the clock was blocked in recv and no other
\* message was waiting to be received
HaltsWhileWaiting ==
    { i \in Sent : trace[i].msg = "Halt" /\ trace[i].at = "recv" /\ trace[i].idle }

\* the cycles run after step i
CyclesAfter(i) == { j \in Cycles : j > i }

\* C20: with the manual clock, after a Halt is sent while the run loop waits
\* for a tick, no further processor cycle is run and no further log record
\* is broadcast.
C20_HaltWhileWaiting ==
    \A i \in HaltsWhileWaiting :
        /\ CyclesAfter(i) = {}
        /\ Len(log_bus) = trace[i].log

\* after such a Halt at most one further cycle is run and, unless it
\* panics, one further record broadcast, and exactly one when run has
\* returned
C20_OneMoreCycle ==
    \A i \in HaltsWhileWaiting :
        /\ Cardinality(CyclesAfter(i)) <= 1
        /\ Len(log_bus) = trace[i].log
              + Cardinality(CyclesAfter(i) \ Panics)
        /\ run_state = "returned" => Cardinality(CyclesAfter(i)) = 1

\* the clock has returned for such a Halt and run has run a cycle that
\* completed, broadcast its record, received the Halt and returned
C20_CycleAfterHalt ==
    \E i \in HaltsWhileWaiting :
        /\ run_state = "returned"
        /\ \E j \in CyclesAfter(i) : trace[j].result = "ok"
        /\ Len(log_bus) = trace[i].log + 1
        /\ log_bus[Len(log_bus)].kind = "Ok"

\* the Reset messages sent while the clock was blocked in recv and no other
\* message was waiting to be received
ResetsWhileWaiting ==
    { i \in Sent : trace[i].msg = "Reset" /\ trace[i].at = "recv" /\ trace[i].idle }

\* the first cycle run after step i, as a set: empty when there is none
FirstCycleAfter(i) ==
    { j \in CyclesAfter(i) : \A k \in CyclesAfter(i) : j <= k }

\* C21: with the manual clock a Reset sent while the run loop waits for a
\* tick is applied before any further cycle is run: the first cycle run
\* after the Reset was sent comes after the reset of the processor, fetches
\* from address 0 and executes no instruction.
C21_ResetBeforeCycle ==
    \A i \in ResetsWhileWaiting :
        \A j \in FirstCycleAfter(i) :
            /\ \E k \in Resets : i < k /\ k < j
            /\ trace[j].pc = 0
            /\ ~trace[j].events.executed

\* the first cycle run after such a Reset was sent runs on the processor as
\* it was when the Reset was sent, and the processor is reset only after it
C21_CycleBeforeReset ==
    \A i \in ResetsWhileWaiting :
        \A j \in FirstCycleAfter(i) :
            /\ \A k \in Resets : ~(i < k /\ k < j)
            /\ trace[j].pc = trace[i].pc
            /\ trace[j].pending = trace[i].pending
            /\ \A k \in Resets : k > i => k > j

\* a Reset was sent while the run loop waited for a tick; the next cycle
\* fetched from address 4 and executed the pending instruction, and the
\* processor was reset after it
C21_ExecutedBeforeReset ==
    \E i \in ResetsWhileWaiting :
        \E j \in FirstCycleAfter(i) :
            /\ trace[j].pc = 4
            /\ trace[j].events.executed
            /\ \E k \in Resets : k = j + 1

\* ------------------------------------------------------------------------
\* The run loop under fair scheduling: the thread that runs
\* ExecutionEnvironment::run is not suspended for ever, so every step of it
\* that stays possible is taken.  try_recv and the buffered part of next_tick
\* do not wait; recv returns once its reader holds a message or the senders
\* are gone; the controller is under no obligation to send anything.
\* ------------------------------------------------------------------------

\* run, after next_tick has returned, goes on to Processor::cycle and leaves
\* with its outcome: the step ManualCycle as seen on run_state
CycleScheduled ==
    /\ run_state = "ticked"
    /\ run_state' \in { "running", "returned", "panicked" }

FairRun ==
    /\ WF_vars(RecvEmpty)
    /\ WF_vars(RecvReset)
    /\ WF_vars(RecvHalt)
    /\ WF_vars(RecvOther)
    /\ WF_vars(NextTickEarly)
    /\ WF_vars(NextTickBlock)
    /\ WF_vars(NextTickRecv)
    /\ WF_run_state(CycleScheduled)

SpecManualLive == SpecManual /\ FairRun

\* a Halt has been sent on the control bus
HaltSent == \E i \in Sent : trace[i].msg = "Halt"

\* run was asked to stop: a Halt was sent or all senders were dropped
StopRequested ==
    HaltSent \/ \E i \in 1 .. Len(trace) : trace[i].kind = "drop"

\* C22: once a Halt has been sent on the control channel or all senders
\* have been dropped, ExecutionEnvironment::run eventually returns, also
\* when it is blocked in the manual clock waiting for a tick.
C22_RunReturns == StopRequested ~> (run_state = "returned")

\* once run was asked to stop, it eventually returns or its thread panics
C22_RunEnds == StopRequested ~> (run_state \in { "returned", "panicked" })

\* run never ends but by a return or by a panic in the cycle that performs
\* the deferred load at the top of the address space
C22_PanicOnlyInLoad ==
    run_state = "panicked" =>
        /\ Len(trace) \in Panics
        /\ IsSome(trace[Len(trace)].load)
        /\ trace[Len(trace)].load.some.addr = -4

\* a Halt was sent while the clock was blocked in recv, the clock returned,
\* and the cycle that followed panicked: run has not returned and never will
C22_PanicAfterHalt ==
    /\ run_state = "panicked"
    /\ \E i \in HaltsWhileWaiting : CyclesAfter(i) \cap Panics # {}

\* run has returned after the senders were dropped while the clock was
\* blocked in recv
C22_ReturnedAfterDrop ==
    /\ run_state = "returned"
    /\ \E i \in 1 .. Len(trace) :
          /\ trace[i].kind = "drop" /\ trace[i].at = "recv" /\ trace[i].idle
          /\ CyclesAfter(i) # {}

\* the number of ManualTick messages at the head of the reader rx, before
\* any other message
RECURSIVE LeadingTicks(_)
LeadingTicks(rx) ==
    IF rx # << >> /\ Head(rx) = "ManualTick"
    THEN 1 + LeadingTicks(Tail(rx))
    ELSE 0

\* the returns of next_tick that found k >= 1 ManualTick messages queued
QueuedTicks == { i \in Ticks : ~trace[i].blocked /\ LeadingTicks(trace[i].queued) >= 1 }

\* the steps of the controller after step i and before step j
SentBetween(i, j) ==
    { n \in 1 .. Len(trace) :
        i < n /\ n < j /\ trace[n].kind \in { "send", "drop" } }

\* C23: ManualClock::next_tick called with k >= 1 ManualTick messages queued
\* ahead of any Reset or Halt returns without blocking with MissedTicks(k)
\* and consumes all k, so the k ticks lead to a single processor cycle; called
\* with nothing queued it blocks, and returns Ok once a ManualTick, Reset,
\* Halt or disconnect has arrived.
C23_QueuedTicks ==
    /\ \A i \in QueuedTicks :
          LET q == trace[i].queued
              k == LeadingTicks(q)
          IN  /\ trace[i].status = ClockStatus_MissedTicks(k)
              /\ \E n \in k .. Len(q) : trace[i].left = SubSeq(q, n + 1, Len(q))
              /\ k = Len(q) =>
                    Cardinality({ j \in CyclesAfter(i) :
                                    SentBetween(i, j) = {} }) <= 1
    /\ \A i \in Ticks : ~trace[i].blocked => trace[i].queued # << >>
    /\ \A i \in Blocks : trace[i].queued = << >>
    /\ \A i \in Ticks :
          trace[i].blocked =>
            /\ trace[i].status = ClockStatus_Ok
            /\ trace[i].queued # << >>
            /\ Head(trace[i].queued)
                 \in { "ManualTick", "Reset", "Halt", "Disconnected" }
            /\ \E b \in Blocks : b < i /\ SentBetween(b, i) # {}
    /\ run_state = "recv" => Len(trace) \in Blocks \/ clock_rx # << >>

\* next_tick found two ManualTick messages queued and returned
\* MissedTicks(2) with the reader empty; one cycle was run and next_tick,
\* called again, has blocked
C23_Witness ==
    /\ run_state = "recv"
    /\ \E i \in QueuedTicks :
          /\ trace[i].queued = << "ManualTick", "ManualTick" >>
          /\ trace[i].status = ClockStatus_MissedTicks(2)
          /\ trace[i].left = << >>
          /\ Cardinality(CyclesAfter(i)) = 1

\* next_tick blocked with nothing queued and returned Ok for a ManualTick
C23_BlockedThenTick ==
    \E i \in Ticks :
        /\ trace[i].blocked
        /\ Head(trace[i].queued) = "ManualTick"
        /\ i - 1 \in Sent
        /\ i - 2 \in Blocks

\* ------------------------------------------------------------------------
\* The run loop driven by a FixedClock.  now counts units of time; time
\* passes between any two steps.  fixed_clock holds the fields of the
\* FixedClock and, in wait, the locals of a next_tick that has been called
\* and has not returned.  run_state is "spin" while next_tick waits for the
\* tick boundary.
\* ------------------------------------------------------------------------

\* the time the model lets pass
MaxTime == 4

\* the number of control messages the controller sends to a run loop with a
\* FixedClock
MaxFixedMessages == 1

\* the periods of the FixedClock, in units of time
FixedPeriods == { 2 }

\* the boot images run with the FixedClock
FixedImages == { << 5243027, 3178771, 115 >> }

\* FixedClock::new at the instant given
FixedClock_new(period, instant) ==
    [period |-> period, prev_tick |-> instant, wait |-> None]

\* a next_tick that counts the missed ticks but waits for one period only
FixedClock_wait_one_period(clock, elapsed) ==
    LET missed == IF elapsed > clock.period THEN elapsed \div clock.period
                  ELSE 0
    IN  [missed |-> missed, wait_period |-> clock.period]

\* FixedClock::next_tick, up to the loop that waits: the ticks missed and
\* the time to wait from prev_tick, for the time elapsed since prev_tick
FixedClock_wait(clock, elapsed) ==
    LET missed == IF elapsed > clock.period THEN elapsed \div clock.period
                  ELSE 0
    IN  [missed |-> missed, wait_period |-> clock.period + missed * clock.period]

\* FixedClock::reset at the instant given
FixedClock_reset(clock, instant) == [clock EXCEPT !.prev_tick = instant]

\* the record of a return of FixedClock::next_tick: the time, the tick
\* boundary it waited for and the status returned
FixedTickStep(p, boundary, status) ==
    [ResetStep(p) EXCEPT !.kind = "tick", !.pc_after = p.hart.pc]
      @@ [now |-> now, boundary |-> boundary, status |-> status]

\* ExecutionEnvironment::new on a boot image with a FixedClock
InitFixed ==
    /\ \E words \in FixedImages :
          processor = Processor_new(ImageBytes(words), RamSize)
    /\ log_bus = << >>
    /\ run_state = "running"
    /\ trace = << >>
    /\ control_rx = << >>
    /\ clock_rx = << >>
    /\ \E period \in FixedPeriods : fixed_clock = FixedClock_new(period, 0)
    /\ now = 0

\* a unit of time passes
Elapse ==
    /\ run_state \in { "running", "next_tick", "spin", "ticked" }
    /\ now < MaxTime
    /\ now' = now + 1
    /\ UNCHANGED << processor, log_bus, run_state, trace, control_rx,
                    clock_rx, fixed_clock >>

\* the controller broadcasts m on the control bus, which only run reads
FixedSend(m) ==
    /\ run_state \in { "running", "next_tick", "spin", "ticked" }
    /\ Cardinality(Sent) < MaxFixedMessages
    /\ m = "Reset" =>
          Cardinality({ i \in Sent : trace[i].msg = "Reset" }) < MaxResets
    /\ control_rx' = Append(control_rx, m)
    /\ trace' = Append(trace, SendStep(processor, m) @@ [now |-> now])
    /\ UNCHANGED << processor, log_bus, run_state, clock_rx, fixed_clock,
                    now >>

\* FixedClock::next_tick is called: the ticks missed and the time to wait
\* are worked out from the time elapsed since prev_tick
FixedNextTick ==
    /\ run_state = "next_tick"
    /\ fixed_clock' =
          [fixed_clock EXCEPT
             !.wait = Some(FixedClock_wait(fixed_clock,
                                           now - fixed_clock.prev_tick))]
    /\ run_state' = "spin"
    /\ UNCHANGED << processor, log_bus, trace, control_rx, clock_rx, now >>

\* FixedClock::next_tick leaves its loop once the time elapsed since
\* prev_tick has reached the time to wait, moves prev_tick to that tick
\* boundary and returns
FixedTick ==
    /\ run_state = "spin"
    /\ now - fixed_clock.prev_tick >= fixed_clock.wait.some.wait_period
    /\ fixed_clock' =
          [fixed_clock EXCEPT
             !.prev_tick = @ + fixed_clock.wait.some.wait_period,
             !.wait = None]
    /\ run_state' = "ticked"
    /\ trace' = Append(trace,
          FixedTickStep(processor,
             fixed_clock.prev_tick + fixed_clock.wait.some.wait_period,
             IF fixed_clock.wait.some.missed = 0 THEN ClockStatus_Ok
             ELSE ClockStatus_MissedTicks(fixed_clock.wait.some.missed)))
    /\ UNCHANGED << processor, log_bus, control_rx, clock_rx, now >>

\* the steps of the thread that runs ExecutionEnvironment::run with a
\* FixedClock
FixedRunThread ==
    \/ RecvEmpty \/ RecvReset \/ RecvHalt \/ RecvOther
    \/ FixedNextTick \/ FixedTick
    \/ ManualCycle

NextFixed ==
    Elapse \/ (\E m \in ControlMessages : FixedSend(m)) \/ FixedRunThread

SpecFixed == InitFixed /\ [][NextFixed]_vars

\* the resets of the processor after which next_tick has not returned yet
ResetsBeforeTick == { r \in Resets : \A t \in Ticks : t < r }

\* the first return of next_tick after step i, as a set
FirstTickAfter(i) ==
    { t \in Ticks : t > i /\ \A u \in Ticks : u > i => t <= u }

\* C24: when a Reset control message resets the processor, the run loop
\* calls the reset of its clock: the FixedClock counts from the time of the
\* reset, and its next tick comes a full period after the reset.
C24_ClockReset ==
    /\ \A r \in ResetsBeforeTick :
          fixed_clock.prev_tick
            = FixedClock_reset(fixed_clock, trace[r].now).prev_tick
    /\ \A r \in Resets :
          \A t \in FirstTickAfter(r) :
              trace[t].now >= trace[r].now + fixed_clock.period

\* the FixedClock keeps the tick boundaries it started with through every
\* reset of the processor: prev_tick is a multiple of the period after time
\* 0, and every tick is returned at or after its boundary
C24_BoundariesKept ==
    /\ fixed_clock.prev_tick % fixed_clock.period = 0
    /\ \A t \in Ticks :
          /\ trace[t].boundary % fixed_clock.period = 0
          /\ trace[t].now >= trace[t].boundary

\* the processor was reset at time 3, one unit after the tick at time 2,
\* and the next tick was returned at time 4
C24_TickBeforePeriod ==
    \E r \in Resets :
        /\ trace[r].now = 3
        /\ \E t \in FirstTickAfter(r) :
              /\ trace[t].now = 4
              /\ trace[t].boundary = 4
              /\ trace[t].status = ClockStatus_Ok

\* the cycles that completed and executed an instruction: their log record
\* is an Ok record whose instr is present
OkExecuted ==
    { i \in Cycles : trace[i].result = "ok" /\ trace[i].events.executed }

\* C25: in every Ok log record whose instr is present, pc is the address of
\* the instruction executed in that cycle, the address it was fetched from;
\* hart.prev_pc is the address of the instruction most recently executed.
C25_LogPc ==
    \A i \in OkExecuted :
        /\ log_bus[trace[i].log].kind = "Ok"
        /\ IsSome(log_bus[trace[i].log].instr)
        /\ log_bus[trace[i].log].pc = PendingAddress(i)
        /\ i = Len(trace) => processor.hart.prev_pc = PendingAddress(i)

\* the pc of such a record is the address the cycle fetched from, one word
\* after the address of the instruction it executed
C25_LogPcOfFetch ==
    \A i \in OkExecuted :
        /\ log_bus[trace[i].log].kind = "Ok"
        /\ IsSome(log_bus[trace[i].log].instr)
        /\ log_bus[trace[i].log].pc = trace[i].pc
        /\ trace[i].pc = WrappingAdd(PendingAddress(i), 4)
        /\ i = Len(trace) => processor.hart.prev_pc = trace[i].pc

\* the instruction fetched from address 0 has executed and its Ok record,
\* with instr present, has pc = 4
C25_PcAhead ==
    \E i \in OkExecuted :
        /\ PendingAddress(i) = 0
        /\ log_bus[trace[i].log].pc = 4
        /\ IsSome(log_bus[trace[i].log].instr)

\* ------------------------------------------------------------------------
\* The instruction word decoder on its own: Hart::decode is applied to
\* words built from fields by the bit layout of the base instruction
\* formats, and to words given as they are.
\* ------------------------------------------------------------------------

\* the number of words decoded in one run
MaxDecodes == 1

\* the field values a word is built from: all bits clear, all bits set, and
\* mixed patterns
DecodeFields ==
    { [rd |-> 0, rs1 |-> 0, rs2 |-> 0, funct3 |-> 0, funct7 |-> 0],
      [rd |-> 31, rs1 |-> 31, rs2 |-> 31, funct3 |-> 7, funct7 |-> 127],
      [rd |-> 0, rs1 |-> 31, rs2 |-> 0, funct3 |-> 7, funct7 |-> 0],
      [rd |-> 21, rs1 |-> 10, rs2 |-> 21, funct3 |-> 2, funct7 |-> 85] }

\* the opcodes of the words built in each format
FormatOpcodes ==
    [R |-> { 51 }, I |-> { 3, 19, 103 }, S |-> { 35 }, B |-> { 99 },
     U |-> { 23, 55 }, J |-> { 111 }]

\* the immediates of each format: the ends of its range, values next to 0,
\* alternating bit patterns and the values of the tests of the decoder; the
\* U immediates are given by their 20 bits
FormatImmediates ==
    [R |-> { 0 },
     I |-> { -2048, -1366, -50, -1, 0, 8, 1365, 2047 },
     S |-> { -2048, -1366, -1, 0, 8, 1365, 2047 },
     B |-> { -4096, -2732, -2, 0, 16, 2730, 4094 },
     U |-> { 0, 1, 349525, 524287, 524288, 554580, 912091, 1048575 },
     J |-> { -1048576, -699052, -2, 0, 164, 2048, 699050, 1048574 }]

\* bits lo..hi of the two's complement immediate imm
ImmBits(imm, lo, hi) == (imm \div Pow2(lo)) % Pow2(hi - lo + 1)

\* the 32-bit pattern with bit 31 = top and the low 31 bits low
Word(top, low) == low + (IF top = 1 THEN MinI32 ELSE 0)

\* the word of format with the fields f and the immediate imm, by the bit
\* layout of the base instruction formats
Encode(format, opcode, f, imm) ==
    CASE format = "R" ->
           Word(ImmBits(f.funct7, 6, 6),
                ImmBits(f.funct7, 0, 5) * Pow2(25) + f.rs2 * Pow2(20)
                  + f.rs1 * Pow2(15) + f.funct3 * Pow2(12) + f.rd * Pow2(7)
                  + opcode)
      [] format = "I" ->
           Word(ImmBits(imm, 11, 11),
                ImmBits(imm, 0, 10) * Pow2(20) + f.rs1 * Pow2(15)
                  + f.funct3 * Pow2(12) + f.rd * Pow2(7) + opcode)
      [] format = "S" ->
           Word(ImmBits(imm, 11, 11),
                ImmBits(imm, 5, 10) * Pow2(25) + f.rs2 * Pow2(20)
                  + f.rs1 * Pow2(15) + f.funct3 * Pow2(12)
                  + ImmBits(imm, 0, 4) * Pow2(7) + opcode)
      [] format = "B" ->
           Word(ImmBits(imm, 12, 12),
                ImmBits(imm, 5, 10) * Pow2(25) + f.rs2 * Pow2(20)
                  + f.rs1 * Pow2(15) + f.funct3 * Pow2(12)
                  + ImmBits(imm, 1, 4) * Pow2(8)
                  + ImmBits(imm, 11, 11) * Pow2(7) + opcode)
      [] format = "U" ->
           Word(ImmBits(imm, 19, 19),
                ImmBits(imm, 0, 18) * Pow2(12) + f.rd * Pow2(7) + opcode)
      [] format = "J" ->
           Word(ImmBits(imm, 20, 20),
                ImmBits(imm, 1, 10) * Pow2(21)
                  + ImmBits(imm, 11, 11) * Pow2(20)
                  + ImmBits(imm, 12, 19) * Pow2(12) + f.rd * Pow2(7)
                  + opcode)

\* OP-IMM shift words with rd = x1, rs1 = x2 and the low immediate bits
\* 00011: funct3 = 101 with imm_i[11:5] = 0000000 (srli x1, x2, 3,
\* 0x00315093), 0100000 (srai x1, x2, 3, 0x40315093), 0000001 (0x02315093),
\* 1000000 (0x80315093) and 0111111 (0x7e315093), and funct3 = 001 with
\* imm_i[11:5] = 0000000 (slli x1, x2, 3, 0x00311093), 0100000 (0x40311093)
\* and 1111111 (0xfe311093)
ShiftWords ==
    { 3231891, 1076973715, 36786323, -2144251757, 2117161107,
      3215507, 1076957331, -30338925 }

\* the words decoded as they are: every 7-bit opcode with the other bits
\* clear, the words of the tests of identify_instruction_length (0xfce08793,
\* 0x000002b7, 0x000012a9, 0x242312a9), 0x0000707f, 0xfffffffe, 0xffffffff
\* and words with all upper bits set and the low bits of each length class
RawWords ==
    0 .. 127 \cup
    { -52394093, 695, 4777, 606278313, 28799, -2, -1,
      -128 + 1, -128 + 2, -128 + 19, -128 + 31, -128 + 63, -128 + 95,
      -128 + 115 } \cup ShiftWords

\* the record of one Hart::decode: the format, opcode, fields and immediate
\* the word was built from (format "raw" for a word given as it is), the
\* word, the length it is classified as, its parts and the result
DecodeStep(format, opcode, f, imm, raw, pc) ==
    [kind |-> "decode", format |-> format, opcode |-> opcode, fields |-> f,
     imm |-> imm, raw |-> raw, pc |-> pc,
     length |-> identify_instruction_length(raw),
     parts |-> InstructionWordParts(raw),
     result |-> Hart_decode(raw, pc)]

\* Hart::new with the RV32I handlers; nothing has been decoded
InitDecode ==
    /\ \E words \in { Prologue } :
          processor = Processor_new(ImageBytes(words), RamSize)
    /\ log_bus = << >>
    /\ run_state = "running"
    /\ trace = << >>
    /\ control_rx = << >>
    /\ clock_rx = << >>
    /\ fixed_clock = None
    /\ now = 0

\* Hart::decode of a word built in one of the base formats
DecodeFormat ==
    /\ Len(trace) < MaxDecodes
    /\ \E format \in DOMAIN FormatOpcodes :
          \E opcode \in FormatOpcodes[format] :
             \E f \in DecodeFields :
                \E imm \in FormatImmediates[format] :
                   trace' = Append(trace,
                       DecodeStep(format, opcode, f, imm,
                                  Encode(format, opcode, f, imm),
                                  processor.hart.pc))
    /\ UNCHANGED << processor, log_bus, run_state, control_rx, clock_rx,
                    fixed_clock, now >>

\* Hart::decode of a word given as it is
DecodeRaw ==
    /\ Len(trace) < MaxDecodes
    /\ \E raw \in RawWords :
          trace' = Append(trace,
              DecodeStep("raw", MaskBits(raw, 0, 6),
                         [rd |-> 0, rs1 |-> 0, rs2 |-> 0, funct3 |-> 0,
                          funct7 |-> 0],
                         0, raw, processor.hart.pc))
    /\ UNCHANGED << processor, log_bus, run_state, control_rx, clock_rx,
                    fixed_clock, now >>

NextDecode == DecodeFormat \/ DecodeRaw

SpecDecode == InitDecode /\ [][NextDecode]_vars

\* the words decoded so far, and those built in the format given
Decodes == { i \in 1 .. Len(trace) : trace[i].kind = "decode" }

Built(format) == { i \in Decodes : trace[i].format = format }

\* the immediate the format of step i is to give back: the 20 bits of a U
\* immediate are the upper bits of imm_u
ImmediateOf(i) ==
    IF trace[i].format = "U"
    THEN Word(ImmBits(trace[i].imm, 19, 19),
              ImmBits(trace[i].imm, 0, 18) * Pow2(12))
    ELSE trace[i].imm

\* C26: a word built in the I, S, B, U or J format from fields and an
\* immediate in range is split by InstructionWordParts::new into the same
\* opcode, the same rd, rs1, rs2, funct3 and funct7 as far as the format
\* holds them, and the same immediate, sign-extended; imm_b and imm_j of
\* every word are even and imm_u of every word has its low 12 bits clear.
C26_RoundTrip ==
    /\ \A i \in Decodes :
          LET s == trace[i]
              p == trace[i].parts
          IN  /\ s.format # "raw" => p.opcode = s.opcode
              /\ s.format \in {"R", "I", "U", "J"} => p.rd = s.fields.rd
              /\ s.format \in {"R", "I", "S", "B"} =>
                    p.rs1 = s.fields.rs1 /\ p.funct3 = s.fields.funct3
              /\ s.format \in {"R", "S", "B"} => p.rs2 = s.fields.rs2
              /\ s.format = "R" => p.funct7 = s.fields.funct7
              /\ s.format = "I" => p.imm_i = ImmediateOf(i)
              /\ s.format = "S" => p.imm_s = ImmediateOf(i)
              /\ s.format = "B" => p.imm_b = ImmediateOf(i)
              /\ s.format = "U" => p.imm_u = ImmediateOf(i)
              /\ s.format = "J" => p.imm_j = ImmediateOf(i)
              /\ p.imm_b % 2 = 0
              /\ p.imm_j % 2 = 0
              /\ p.imm_u % 4096 = 0
              /\ p.raw = s.raw

\* a J-format word with the immediate -699052 (bits 0xaaaaa << 2, negative)
\* and rd = 21 has been split into opcode 0x6f, rd = 21 and imm_j = -699052
C26_Witness ==
    \E i \in Built("J") :
        /\ trace[i].imm = -699052
        /\ trace[i].fields.rd = 21
        /\ trace[i].parts.opcode = 111
        /\ trace[i].parts.rd = 21
        /\ trace[i].parts.imm_j = -699052

\* the words whose low two bits are 11 and whose bits 4..2 are not 111
WordEncoded(raw) ==
    /\ Bit(raw, 0) = 1 /\ Bit(raw, 1) = 1
    /\ ~(Bit(raw, 2) = 1 /\ Bit(raw, 3) = 1 /\ Bit(raw, 4) = 1)

\* the 7-bit opcode of a word, from its bits
OpcodeOf(raw) ==
    Bit(raw, 0) + 2 * Bit(raw, 1) + 4 * Bit(raw, 2) + 8 * Bit(raw, 3)
      + 16 * Bit(raw, 4) + 32 * Bit(raw, 5) + 64 * Bit(raw, 6)

\* C27: decoding a word gives IllegalInstruction whenever its low two bits
\* are not 11, or its bits 4..2 are 111, or no handler is registered for its
\* 7-bit opcode; exactly the words with low bits 11 and bits 4..2 not 111
\* are classified as 32-bit, and those with a registered opcode are passed
\* to its handler.
C27_IllegalEncodings ==
    \A i \in Decodes :
        LET raw == trace[i].raw
        IN  /\ (trace[i].length = "Word") <=> WordEncoded(raw)
            /\ ~WordEncoded(raw) => trace[i].result = Err(IllegalInstruction)
            /\ OpcodeOf(raw) \notin RV32I_opcodes =>
                  trace[i].result = Err(IllegalInstruction)
            /\ WordEncoded(raw) /\ OpcodeOf(raw) \in RV32I_opcodes =>
                  trace[i].result
                    = OpcodeHandler_decode(OpcodeOf(raw),
                                           InstructionWordParts(raw),
                                           trace[i].pc)

\* 0x242312a9, a 16-bit encoding followed by the low half of a 32-bit
\* instruction, has been decoded: it is classified as HalfWord and the
\* result is IllegalInstruction
C27_Witness ==
    \E i \in Decodes :
        /\ trace[i].raw = 606278313
        /\ trace[i].length = "HalfWord"
        /\ trace[i].result = Err(IllegalInstruction)

\* 0x0000007f (bits 4..2 are 111) and 0x0000000b (opcode without a handler)
\* give IllegalInstruction, and 0xfce08793 is passed to a handler that
\* accepts it
C27_EachCase ==
    \E i \in Decodes :
        \/ trace[i].raw = 127 /\ trace[i].length # "Word"
             /\ trace[i].result = Err(IllegalInstruction)
        \/ trace[i].raw = 11 /\ trace[i].length = "Word"
             /\ trace[i].result = Err(IllegalInstruction)
        \/ trace[i].raw = -52394093 /\ trace[i].length = "Word"
             /\ trace[i].result.kind = "ok"

\* the value register r holds after step i
RegAfter(i, r) == trace[i].registers[r + 1]

\* the value a write of v to register r leaves in it: register 0 stays 0
Written(r, v) == IF r = 0 THEN 0 ELSE v

\* the cycles that executed an instruction with operation op and completed
Completed(op) == { i \in Executed(op) : trace[i].result = "ok" }

\* C28: the pc-relative instructions use the address they were fetched from:
\* auipc writes that address + imm_u (mod 2^32), jal jumps to it + imm_j, a
\* taken branch jumps to it + imm_b, and jal and jalr write it + 4 to rd;
\* this holds also for the first instruction after a jump or a reset.
C28_OwnAddress ==
    /\ \A i \in Completed("auipc") :
          RegAfter(i, ExecutedInstr(i).dest)
            = Written(ExecutedInstr(i).dest,
                      WrappingAdd(PendingAddress(i), ExecutedInstr(i).imm))
    /\ \A i \in Completed("jal") :
          /\ trace[i].events.jumped
          /\ trace[i].pc_after
               = WrappingAdd(PendingAddress(i), ExecutedInstr(i).offset)
          /\ RegAfter(i, ExecutedInstr(i).dest)
               = Written(ExecutedInstr(i).dest,
                         WrappingAdd(PendingAddress(i), 4))
    /\ \A i \in Completed("branch") :
          Taken(i) =>
            /\ trace[i].events.jumped
            /\ trace[i].pc_after
                 = WrappingAdd(PendingAddress(i), ExecutedInstr(i).offset)
    /\ \A i \in Completed("jalr") :
          RegAfter(i, ExecutedInstr(i).dest)
            = Written(ExecutedInstr(i).dest,
                      WrappingAdd(PendingAddress(i), 4))

\* auipc x11, 0xdeadb, fetched from address 4, has executed with the hart's
\* pc at 8 and x11 = 0xdeadb004
C28_Witness ==
    \E i \in Completed("auipc") :
        /\ PendingAddress(i) = 4
        /\ trace[i].pc = 8
        /\ ExecutedInstr(i).dest = 11
        /\ RegAfter(i, 11) = -559042556

\* auipc x11, 0xdeadb, the target at address 8 of the jal at address 0, has
\* executed with x11 = 0xdeadb008
C28_AfterJump ==
    \E i \in Completed("auipc") :
        /\ FirstAfterJump(i)
        /\ PendingAddress(i) = 8
        /\ RegAfter(i, 11) = -559042552

\* a jal fetched from address 0 right after a reset taken at a nonzero pc
\* has jumped to its offset and linked 4
C28_AfterReset ==
    \E i \in Completed("jal") :
        /\ FirstAfterReset(i)
        /\ PendingAddress(i) = 0
        /\ trace[i].pc_after = ExecutedInstr(i).offset

\* C29: jalr jumps to (rs1 + imm_i) mod 2^32 with bit 0 cleared, where rs1
\* is read before rd is written, so that with rd = rs1 the target comes from
\* the old value of the register; when that target is not a multiple of 4 it
\* raises InstructionAddressMisaligned and leaves the registers, rd
\* included, and the pc as they were.
C29_Jalr ==
    \A i \in Executed("jalr") :
        IF JumpTarget(i) % 4 = 0
        THEN /\ trace[i].result = "ok"
             /\ trace[i].events.jumped
             /\ trace[i].pc_after = JumpTarget(i)
             /\ RegAfter(i, ExecutedInstr(i).dest)
                  = Written(ExecutedInstr(i).dest,
                            WrappingAdd(PendingAddress(i), 4))
        ELSE /\ trace[i].result = "err"
             /\ trace[i].err = InstructionAddressMisaligned
             /\ trace[i].pc_after = trace[i].pc
             /\ trace[i].registers = RegistersBefore(i)

\* jalr x1, 0(x1), fetched from address 8 with x1 = 0x80000000, has jumped
\* to 0x80000000 and left 12 in x1
C29_Witness ==
    \E i \in Executed("jalr") :
        /\ ExecutedInstr(i).dest = 1 /\ ExecutedInstr(i).base = 1
        /\ RegBefore(i, 1) = MinI32
        /\ trace[i].result = "ok"
        /\ trace[i].pc_after = MinI32
        /\ RegAfter(i, 1) = 12

\* jalr x1, 2(x1) with x1 = 0x80000000 has raised
\* InstructionAddressMisaligned with x1 still 0x80000000
C29_MisalignedKeepsRd ==
    \E i \in Executed("jalr") :
        /\ ExecutedInstr(i).dest = 1 /\ ExecutedInstr(i).base = 1
        /\ ExecutedInstr(i).offset = 2
        /\ trace[i].result = "err"
        /\ RegAfter(i, 1) = MinI32

\* jalr x3, 9(x0) has jumped to 8
C29_BitCleared ==
    \E i \in Executed("jalr") :
        /\ ExecutedInstr(i).offset = 9
        /\ trace[i].result = "ok"
        /\ trace[i].pc_after = 8

\* the cycles that executed a branch whose condition does not hold and whose
\* target, branch address + imm_b, is not a multiple of 4
UntakenMisaligned ==
    { i \in UntakenBranches : JumpTarget(i) % 4 # 0 }

\* C30: the alignment of the target of a branch is checked only when the
\* branch is taken: a branch whose condition is false raises no exception
\* and falls through, also when its target is not a multiple of 4.
C30_UntakenBranch ==
    \A i \in UntakenBranches :
        /\ trace[i].result = "ok"
        /\ ~trace[i].events.jumped
        /\ trace[i].pc_after = WrappingAdd(trace[i].pc, 4)

\* every branch with a misaligned target raises
\* InstructionAddressMisaligned, whether its condition holds or not, and
\* every untaken branch with an aligned target falls through
C30_CheckedBeforeCondition ==
    /\ \A i \in Executed("branch") :
          JumpTarget(i) % 4 # 0 =>
            /\ trace[i].result = "err"
            /\ trace[i].err = InstructionAddressMisaligned
            /\ trace[i].pc_after = trace[i].pc
    /\ \A i \in UntakenBranches \ UntakenMisaligned :
          /\ trace[i].result = "ok"
          /\ trace[i].pc_after = WrappingAdd(trace[i].pc, 4)

\* bne x0, x0, +6 at address 8, whose condition is false, has raised
\* InstructionAddressMisaligned
C30_UntakenRaises ==
    \E i \in UntakenMisaligned :
        /\ PendingAddress(i) = 8
        /\ ExecutedInstr(i).offset = 6
        /\ trace[i].result = "err"
        /\ trace[i].err = InstructionAddressMisaligned
        /\ run_state = "returned"

\* ------------------------------------------------------------------------
\* The immediate shifts of OP-IMM
\* ------------------------------------------------------------------------

\* the decoded 32-bit OP-IMM words with funct3 = f
OpImmWords(f) ==
    { i \in Decodes : /\ trace[i].length = "Word"
                      /\ trace[i].parts.opcode = 19
                      /\ trace[i].parts.funct3 = f }

\* imm_i[11:5] and imm_i[4:0] of the word of step i
UpperImm(i) == ImmBits(trace[i].parts.imm_i, 5, 11)

LowerImm(i) == ImmBits(trace[i].parts.imm_i, 0, 4)

\* the right shift of rs1 by imm_i[4:0] into rd with the fill given
RightShift(i, behaviour) ==
    Ok([op |-> "sri", src |-> trace[i].parts.rs1, dest |-> trace[i].parts.rd,
        behaviour |-> behaviour, imm |-> LowerImm(i)])

\* C31: an OP-IMM word with funct3 = 101 decodes as SRLI (zero-filling
\* right shift of rs1 by imm_i[4:0]) when imm_i[11:5] = 0000000 and as SRAI
\* (sign-filling) when imm_i[11:5] = 0100000; every other value of
\* imm_i[11:5] gives IllegalInstruction.
C31_ShiftRightImmediate ==
    \A i \in OpImmWords(5) :
        trace[i].result
          = CASE UpperImm(i) = 0 -> RightShift(i, "Logical")
              [] UpperImm(i) = 32 -> RightShift(i, "Arithmetic")
              [] OTHER -> Err(IllegalInstruction)

\* what the decoder does: the seven upper bits are compared where they lie
\* in imm_i, so the arithmetic shift is selected by imm_i[11:5] = 0000001
\* (imm_i & 0xfe0 = 0b0100000) and imm_i[11:5] = 0100000 is illegal
C31_UnshiftedCompare ==
    \A i \in OpImmWords(5) :
        trace[i].result
          = CASE UpperImm(i) = 0 -> RightShift(i, "Logical")
              [] UpperImm(i) = 1 -> RightShift(i, "Arithmetic")
              [] OTHER -> Err(IllegalInstruction)

\* srai x1, x2, 3 (0x40315093) has been decoded and was rejected
C31_SraiRejected ==
    \E i \in OpImmWords(5) :
        /\ trace[i].raw = 1076973715
        /\ UpperImm(i) = 32
        /\ trace[i].result = Err(IllegalInstruction)

\* 0x02315093, with imm_i[11:5] = 0000001, has been decoded as a
\* sign-filling right shift of x2 by 3 into x1
C31_OtherBitsAccepted ==
    \E i \in OpImmWords(5) :
        /\ trace[i].raw = 36786323
        /\ UpperImm(i) = 1
        /\ trace[i].result = RightShift(i, "Arithmetic")

\* the left shift of rs1 by imm_i[4:0] into rd
LeftShift(i) ==
    Ok([op |-> "slli", src |-> trace[i].parts.rs1, dest |-> trace[i].parts.rd,
        shift |-> LowerImm(i)])

\* C32: an OP-IMM word with funct3 = 001 (SLLI) is accepted only when
\* imm_i[11:5] is all zero; with any of those bits set it is rejected with
\* IllegalInstruction instead of shifting by imm_i[4:0].
C32_SlliUpperBits ==
    \A i \in OpImmWords(1) :
        trace[i].result
          = IF UpperImm(i) = 0 THEN LeftShift(i) ELSE Err(IllegalInstruction)

\* what the decoder does: SllIInstruction::new cannot fail, every OP-IMM
\* word with funct3 = 001 becomes a left shift by imm_i[4:0]
C32_UpperBitsIgnored ==
    \A i \in OpImmWords(1) : trace[i].result = LeftShift(i)

\* 0xfe311093, an SLLI word with imm_i[11:5] = 1111111, has been decoded
\* and was accepted as slli x1, x2, 3
C32_UpperBitsAccepted ==
    \E i \in OpImmWords(1) :
        /\ trace[i].raw = -30338925
        /\ UpperImm(i) = 127
        /\ trace[i].result.kind = "ok"
        /\ trace[i].result.val.op = "slli"
        /\ trace[i].result.val.shift = 3

\* ------------------------------------------------------------------------
\* Single instructions on a register file: a word is decoded by Hart::decode
\* and the instruction is executed by Instruction::execute on registers
\* that hold operand values given at the start.
\* ------------------------------------------------------------------------

\* the number of instructions executed in one run
MaxExecutes == 1

\* the values of x1 at the start: 0, the values next to it, the ends of the
\* signed range, the ends of the range of a 12-bit immediate and 5
OperandValues == { 0, 1, 5, -1, -2048, 2047, MinI32, MaxI32 }

\* the values of x2 at the start
SecondOperandValues == { 0, 1, -1, MinI32 }

\* the comparisons of x1 with an immediate and with x2
CompareWords ==
    { -1007213,      \* slti x3, x1, -1
      41363,         \* slti x3, x1, 0
      1089939,       \* slti x3, x1, 1
      -2147442285,   \* slti x3, x1, -2048
      2146476435,    \* slti x3, x1, 2047
      -1003117,      \* sltiu x3, x1, -1
      45459,         \* sltiu x3, x1, 0
      1094035,       \* sltiu x3, x1, 1
      -2147438189,   \* sltiu x3, x1, -2048
      2146480531,    \* sltiu x3, x1, 2047
      2138547,       \* slt x3, x1, x2
      2142643,       \* sltu x3, x1, x2
      -1003373,      \* sltiu x1, x1, -1
      2109875 }      \* sltu x3, x0, x2

\* the record of one decode and execute: the word, the decoded instruction,
\* the registers before, the result of execute (or the decode error) and
\* the registers after
ExecuteStep(raw, decoded, before, result, after) ==
    [kind |-> "execute", raw |-> raw, decoded |-> decoded,
     registers_before |-> get_registers(before), result |-> result,
     registers |-> get_registers(after)]

\* Hart::new, then x1 and x2 hold operand values
InitExecute ==
    /\ \E a \in OperandValues, b \in SecondOperandValues :
          LET p == Processor_new(ImageBytes(Prologue), RamSize)
          IN processor
               = [p EXCEPT !.hart.registers
                             = RegStore(RegStore(@, 1, a), 2, b)]
    /\ log_bus = << >>
    /\ run_state = "running"
    /\ trace = << >>
    /\ control_rx = << >>
    /\ clock_rx = << >>
    /\ fixed_clock = None
    /\ now = 0

\* Hart::decode of a word and Instruction::execute of the instruction it
\* gives, on the registers of the hart
Execute ==
    /\ Len(trace) < MaxExecutes
    /\ \E raw \in CompareWords :
          LET decoded == Hart_decode(raw, processor.hart.pc)
              before == processor.hart.registers
              result == IF decoded.kind = "ok"
                        THEN Instruction_execute(decoded.val, before, 0)
                        ELSE decoded
              after == CASE result.kind = "ok" -> result.val.registers
                         [] decoded.kind = "ok" -> result.registers
                         [] OTHER -> before
          IN  /\ processor' = [processor EXCEPT !.hart.registers = after]
              /\ trace' = Append(trace,
                    ExecuteStep(raw, decoded, before, result, after))
    /\ UNCHANGED << log_bus, run_state, control_rx, clock_rx, fixed_clock,
                    now >>

SpecExecute == InitExecute /\ [][Execute]_vars

\* the executed comparisons with the funct3 given: OP-IMM (opcode 0x13) and
\* OP (opcode 0x33, funct7 = 0)
Executes == { i \in 1 .. Len(trace) : trace[i].kind = "execute" }

ImmCompares(f) ==
    { i \in Executes : /\ MaskBits(trace[i].raw, 0, 6) = 19
                       /\ ImmBits(trace[i].raw, 12, 14) = f }

RegCompares(f) ==
    { i \in Executes : /\ MaskBits(trace[i].raw, 0, 6) = 51
                       /\ ImmBits(trace[i].raw, 12, 14) = f
                       /\ ImmBits(trace[i].raw, 25, 31) = 0 }

\* the fields of the word of step i: rd, rs1, rs2, and the 12-bit immediate
\* of bits 31..20 sign-extended to 32 bits
RdOf(i) == ImmBits(trace[i].raw, 7, 11)

Rs1Of(i) == ImmBits(trace[i].raw, 15, 19)

Rs2Of(i) == ImmBits(trace[i].raw, 20, 24)

SignExtendedImm(i) ==
    LET imm == ImmBits(trace[i].raw, 20, 31)
    IN IF imm >= 2048 THEN imm - 4096 ELSE imm

\* a < b for the unsigned 32-bit numbers with the patterns a and b, by
\* their upper and lower 16 bits
UnsignedLess(a, b) ==
    \/ ImmBits(a, 16, 31) < ImmBits(b, 16, 31)
    \/ /\ ImmBits(a, 16, 31) = ImmBits(b, 16, 31)
       /\ ImmBits(a, 0, 15) < ImmBits(b, 0, 15)

\* step i left the flag of less in rd and every other register as it was
WroteFlag(i, less) ==
    /\ trace[i].result.kind = "ok"
    /\ \A r \in 0 .. 31 :
          trace[i].registers[r + 1]
            = IF r = RdOf(i) /\ r # 0 THEN (IF less THEN 1 ELSE 0)
              ELSE trace[i].registers_before[r + 1]

\* C33: SLTIU writes 1 to rd exactly when rs1, read as an unsigned 32-bit
\* number, is less than the 12-bit immediate sign-extended to 32 bits and
\* then read as unsigned, else 0; SLTI and SLT compare as signed and SLTU
\* as unsigned.
C33_SetLessThan ==
    /\ \A i \in ImmCompares(3) :
          WroteFlag(i, UnsignedLess(trace[i].registers_before[Rs1Of(i) + 1],
                                    SignExtendedImm(i)))
    /\ \A i \in ImmCompares(2) :
          WroteFlag(i, trace[i].registers_before[Rs1Of(i) + 1]
                         < SignExtendedImm(i))
    /\ \A i \in RegCompares(2) :
          WroteFlag(i, trace[i].registers_before[Rs1Of(i) + 1]
                         < trace[i].registers_before[Rs2Of(i) + 1])
    /\ \A i \in RegCompares(3) :
          WroteFlag(i, UnsignedLess(trace[i].registers_before[Rs1Of(i) + 1],
                                    trace[i].registers_before[Rs2Of(i) + 1]))

\* sltiu x3, x1, -1 has been executed with x1 = 5 and left x3 = 1
C33_Witness ==
    \E i \in ImmCompares(3) :
        /\ trace[i].raw = -1003117
        /\ trace[i].registers_before[2] = 5
        /\ trace[i].registers[4] = 1

\* sltiu x3, x1, -1 has been executed with x1 = 0xffffffff and left x3 = 0
C33_EndsOfRange ==
    \E i \in ImmCompares(3) :
        /\ trace[i].raw = -1003117
        /\ trace[i].registers_before[2] = -1
        /\ trace[i].registers[4] = 0

\* slti x3, x1, 0 has been executed with x1 = 0x80000000 and left x3 = 1:
\* the signed comparison takes x1 as negative
C33_SignedNegative ==
    \E i \in ImmCompares(2) :
        /\ trace[i].raw = 41363
        /\ trace[i].registers_before[2] = MinI32
        /\ trace[i].registers[4] = 1

\* sltu x3, x1, x2 has been executed with x1 = 1 and x2 = 0x80000000 and
\* left x3 = 1: the unsigned comparison takes x2 as 2^31
C33_UnsignedLarge ==
    \E i \in RegCompares(3) :
        /\ trace[i].raw = 2142643
        /\ trace[i].registers_before[2] = 1
        /\ trace[i].registers_before[3] = MinI32
        /\ trace[i].registers[4] = 1

\* ------------------------------------------------------------------------
\* The FixedClock on its own: a thread calls next_tick and reset and sleeps
\* in between, as the tests of the clock do.
\* ------------------------------------------------------------------------

\* the time up to which the clock is observed
MaxClockTime == 8

\* the periods of the clock
ClockPeriods == { 2, 3 }

\* FixedClock::new at time 0; nothing has been called
InitClock ==
    /\ processor = Processor_new(ImageBytes(Prologue), RamSize)
    /\ log_bus = << >>
    /\ run_state = "running"
    /\ trace = << >>
    /\ control_rx = << >>
    /\ clock_rx = << >>
    /\ \E period \in ClockPeriods : fixed_clock = FixedClock_new(period, 0)
    /\ now = 0

\* a unit of time passes, while the thread sleeps or spins in next_tick
Sleep ==
    /\ now < MaxClockTime
    /\ now' = now + 1
    /\ UNCHANGED << processor, log_bus, run_state, trace, control_rx,
                    clock_rx, fixed_clock >>

\* FixedClock::next_tick is called: the ticks missed and the time to wait
\* are worked out from the time elapsed since prev_tick; the time of the
\* call is kept for the record of the tick
ClockNextTick ==
    /\ run_state = "running"
    /\ fixed_clock' =
          [fixed_clock EXCEPT
             !.wait = Some(FixedClock_wait(fixed_clock,
                                           now - fixed_clock.prev_tick)
                             @@ [called |-> now])]
    /\ run_state' = "spin"
    /\ UNCHANGED << processor, log_bus, trace, control_rx, clock_rx, now >>

\* FixedClock::next_tick leaves its loop once the time elapsed since
\* prev_tick has reached the time to wait, moves prev_tick by that time and
\* returns the status; the record holds the time of the call, the clock as
\* it was at the call, the time of the return and the clock after it
ClockTick ==
    /\ run_state = "spin"
    /\ now - fixed_clock.prev_tick >= fixed_clock.wait.some.wait_period
    /\ fixed_clock' =
          [fixed_clock EXCEPT
             !.prev_tick = @ + fixed_clock.wait.some.wait_period,
             !.wait = None]
    /\ run_state' = "running"
    /\ trace' = Append(trace,
          [kind |-> "tick", called |-> fixed_clock.wait.some.called,
           period |-> fixed_clock.period,
           prev_tick |-> fixed_clock.prev_tick,
           now |-> now,
           prev_tick_after |-> fixed_clock'.prev_tick,
           status |-> IF fixed_clock.wait.some.missed = 0 THEN ClockStatus_Ok
                      ELSE ClockStatus_MissedTicks(
                               fixed_clock.wait.some.missed)])
    /\ UNCHANGED << processor, log_bus, control_rx, clock_rx, now >>

\* FixedClock::reset is called between two calls of next_tick
ClockReset ==
    /\ run_state = "running"
    /\ Cardinality({ i \in 1 .. Len(trace) : trace[i].kind = "reset" })
         < MaxResets
    /\ fixed_clock' = FixedClock_reset(fixed_clock, now)
    /\ trace' = Append(trace, [kind |-> "reset", now |-> now])
    /\ UNCHANGED << processor, log_bus, run_state, control_rx, clock_rx,
                    now >>

NextClock == Sleep \/ ClockNextTick \/ ClockTick \/ ClockReset

SpecClock == InitClock /\ [][NextClock]_vars

\* the returns of next_tick and the calls of reset
ClockTicks == { i \in 1 .. Len(trace) : trace[i].kind = "tick" }

ClockResets == { i \in 1 .. Len(trace) : trace[i].kind = "reset" }

\* the time elapsed since prev_tick when the call of tick i was made
ElapsedAtCall(i) == trace[i].called - trace[i].prev_tick

\* the first tick boundary prev_tick + k * period, k >= 1, that is not
\* before the call of tick i
BoundaryAfterCall(i) ==
    LET k == CHOOSE k \in 1 .. MaxClockTime + 1 :
                /\ trace[i].prev_tick + k * trace[i].period >= trace[i].called
                /\ \A j \in 1 .. k - 1 :
                      trace[i].prev_tick + j * trace[i].period
                        < trace[i].called
    IN  trace[i].prev_tick + k * trace[i].period

\* the value prev_tick was last set to by new or reset before step i
PhaseOrigin(i) ==
    LET before == { j \in ClockResets : j < i }
    IN IF before = {} THEN 0
       ELSE trace[CHOOSE j \in before : \A k \in before : k <= j].now

\* C34: FixedClock::next_tick returns Ok when the time elapsed since
\* prev_tick at the call is at most one period and
\* MissedTicks(floor(elapsed / period)) otherwise; in both cases it returns
\* no earlier than the next tick boundary after the call and advances
\* prev_tick by a whole number of periods, so that until reset() every
\* tick stays on the original phase: prev_tick is congruent to the value
\* new or the last reset gave it, modulo the period.
C34_NextTick ==
    \A i \in ClockTicks :
        LET e == ElapsedAtCall(i)
            advance == trace[i].prev_tick_after - trace[i].prev_tick
        IN  /\ trace[i].status
                 = IF e <= trace[i].period THEN ClockStatus_Ok
                   ELSE ClockStatus_MissedTicks(e \div trace[i].period)
            /\ trace[i].now >= BoundaryAfterCall(i)
            /\ advance > 0
            /\ advance % trace[i].period = 0
            /\ (trace[i].prev_tick - PhaseOrigin(i)) % trace[i].period = 0
            /\ (trace[i].prev_tick_after - PhaseOrigin(i)) % trace[i].period
                 = 0

\* next_tick was called 5 units after prev_tick with a period of 2: it
\* returned MissedTicks(2) and moved prev_tick by three periods
C34_Witness ==
    \E i \in ClockTicks :
        /\ trace[i].period = 2
        /\ ElapsedAtCall(i) = 5
        /\ trace[i].status = ClockStatus_MissedTicks(2)
        /\ trace[i].prev_tick_after = trace[i].prev_tick + 6
        /\ trace[i].now >= trace[i].prev_tick_after

\* next_tick was called exactly one period after prev_tick and returned Ok
\* at once
C34_OnTheBoundary ==
    \E i \in ClockTicks :
        /\ ElapsedAtCall(i) = trace[i].period
        /\ trace[i].status = ClockStatus_Ok
        /\ trace[i].now = trace[i].called

\* after a reset at time 1 a clock of period 2 has ticked on the phase of
\* the reset, at an odd time
C34_PhaseOfReset ==
    \E i \in ClockTicks :
        /\ trace[i].period = 2
        /\ PhaseOrigin(i) = 1
        /\ trace[i].prev_tick_after % 2 = 1

\* ------------------------------------------------------------------------
\* The word after a jump, and the state an exception leaves
\* ------------------------------------------------------------------------

\* the cycles that executed a jal, a jalr or a branch whose condition
\* holds, with a target that is a multiple of 4
TakenJumps ==
    { i \in ControlTransfers : Taken(i) /\ JumpTarget(i) % 4 = 0 }

\* the cycles that returned IllegalInstruction, EnvironmentCall or
\* EnvironmentBreak
DecodeOrSystemExceptions ==
    Raised(IllegalInstruction) \cup Raised(EnvironmentCall)
      \cup Raised(EnvironmentBreak)

\* C35: the word at the sequential address after a taken jal, jalr or
\* branch never causes an exception, also when it is an illegal encoding,
\* an ecall or an ebreak: the cycle of the jump returns Ok, the decoding of
\* the word is not pending afterwards and the next cycle executes nothing;
\* IllegalInstruction, EnvironmentCall and EnvironmentBreak are returned
\* only by the cycle that finds the word pending, decoded by the cycle
\* before, which was not the cycle of a jump.
C35_DiscardedAfterJump ==
    /\ \A i \in TakenJumps :
          /\ FetchBefore(i).kind = "ok"
          /\ trace[i].result = "ok"
          /\ trace[i].events.jumped
          /\ trace[i].pc_after = JumpTarget(i)
          /\ i < Len(trace) => trace[i + 1].pending = None
          /\ i = Len(trace) => processor.hart.next_instr = None
          /\ ((i + 1) \in Cycles /\ FetchBefore(i + 1).kind = "ok")
                => /\ trace[i + 1].result = "ok"
                   /\ ~trace[i + 1].events.executed
    /\ \A i \in DecodeOrSystemExceptions :
          /\ IsSome(trace[i].pending)
          /\ DecodedBefore(i)
          /\ (i - 1) \notin TakenJumps
          /\ trace[i].err = IllegalInstruction
                => trace[i].pending.some = Err(IllegalInstruction)
          /\ trace[i].err = EnvironmentCall
                => /\ trace[i].pending.some.kind = "ok"
                   /\ trace[i].pending.some.val.op = "ecall"
          /\ trace[i].err = EnvironmentBreak
                => /\ trace[i].pending.some.kind = "ok"
                   /\ trace[i].pending.some.val.op = "ebreak"

\* a jal has jumped over the illegal word 0x0000007f, the next cycle has
\* returned Ok and the cycle after it has executed the word at the target
C35_Witness ==
    \E i \in TakenJumps :
        /\ ExecutedInstr(i).op = "jal"
        /\ FetchBefore(i).val = 127
        /\ (i + 2) \in Cycles
        /\ trace[i + 1].result = "ok"
        /\ trace[i + 2].events.executed

\* a taken beq has jumped over the illegal word 0x0000007f and the run went
\* on
C35_AfterBranch ==
    \E i \in TakenJumps :
        /\ ExecutedInstr(i).op = "branch"
        /\ FetchBefore(i).val = 127
        /\ (i + 2) \in Cycles
        /\ trace[i + 1].result = "ok"

\* a jalr has jumped over an ebreak and the run went on
C35_AfterJalr ==
    \E i \in TakenJumps :
        /\ ExecutedInstr(i).op = "jalr"
        /\ FetchBefore(i).val = 1048691
        /\ (i + 2) \in Cycles
        /\ trace[i + 1].result = "ok"

\* a jal has jumped over an ecall, and the ecall at its target has raised
\* EnvironmentCall in the cycle after the one that decoded it
C35_EcallAtTarget ==
    \E i \in TakenJumps :
        /\ FetchBefore(i).val = 115
        /\ (i + 2) \in Raised(EnvironmentCall)

\* the state step i left, as the next step found it or as it is now: the
\* hart's pending instruction and prev_pc, and the processor's deferred
\* load and previous pc
PendingAfter(i) ==
    IF i < Len(trace) THEN trace[i + 1].pending ELSE processor.hart.next_instr

HartPrevPcAfter(i) ==
    IF i < Len(trace) THEN trace[i + 1].hart_prev_pc
    ELSE processor.hart.prev_pc

DeferredLoadAfter(i) ==
    IF i < Len(trace) THEN trace[i + 1].load ELSE processor.load

PrevPcAfter(i) ==
    IF i < Len(trace) THEN trace[i + 1].prev_pc ELSE processor.prev_pc

\* the cycles in which Hart::cycle returned an exception: the decode error
\* of the pending word, or an exception of execute
HartExceptions == DecodeExceptions \cup ExecuteExceptions

\* C36: when Hart::cycle returns an exception (a pending decode error, or
\* an exception raised by execute), hart.pc, hart.prev_pc, the pending
\* instruction and every register are left exactly as they were before the
\* call; in particular a misaligned jal or jalr does not write its link
\* register.
C36_ExceptionKeepsHart ==
    /\ \A i \in Cycles :
          (trace[i].result = "err"
             /\ trace[i].err \in { IllegalInstruction, EnvironmentCall,
                                   EnvironmentBreak,
                                   InstructionAddressMisaligned })
             => i \in HartExceptions
    /\ \A i \in HartExceptions :
          /\ trace[i].pc_after = trace[i].pc
          /\ HartPrevPcAfter(i) = trace[i].hart_prev_pc
          /\ PendingAfter(i) = trace[i].pending
          /\ trace[i].registers = RegistersBefore(i)
    /\ \A i \in Raised(InstructionAddressMisaligned) :
          ExecutedInstr(i).op \in { "jal", "jalr" }
             => trace[i].registers[ExecutedInstr(i).dest + 1]
                  = RegBefore(i, ExecutedInstr(i).dest)

\* jal x3, +6 has returned InstructionAddressMisaligned with x3 = 0 before
\* and after, where its return address is not 0
C36_Witness ==
    \E i \in Raised(InstructionAddressMisaligned) :
        /\ ExecutedInstr(i).op = "jal"
        /\ ExecutedInstr(i).dest = 3
        /\ RegBefore(i, 3) = 0
        /\ WrappingAdd(ExecutedInstr(i).pc, 4) # 0
        /\ trace[i].registers[4] = 0
        /\ processor.hart.pc = trace[i].pc
        /\ processor.hart.next_instr = trace[i].pending

\* a misaligned jalr x3 has left x3 and the hart's prev_pc, which differs
\* from the pc, as they were
C36_MisalignedJalr ==
    \E i \in Raised(InstructionAddressMisaligned) :
        /\ ExecutedInstr(i).op = "jalr"
        /\ ExecutedInstr(i).dest = 3
        /\ trace[i].registers[4] = 0
        /\ processor.hart.prev_pc = trace[i].hart_prev_pc
        /\ processor.hart.prev_pc # processor.hart.pc

\* the decode error of a pending illegal word has been returned and has
\* left the word pending, pc at the address after it and prev_pc at its own
C36_DecodeError ==
    \E i \in DecodeExceptions :
        /\ trace[i].pc > 0
        /\ processor.hart.pc = trace[i].pc
        /\ processor.hart.prev_pc = trace[i].pc - 4
        /\ processor.hart.next_instr = Some(Err(IllegalInstruction))

\* C37: a processor cycle that fails in the instruction fetch or in the
\* deferred load leaves the register file, RAM, the hart's pc, prev_pc and
\* pending instruction, and the processor's deferred load and previous pc
\* unchanged; the pending instruction of that cycle is never executed: the
\* cycle does not execute it and run returns.
C37_FailedAccessKeepsState ==
    \A i \in FetchFailures \cup LoadFailures :
        /\ trace[i].result = "err"
        /\ trace[i].err = IF i \in FetchFailures THEN FetchBefore(i).err
                          ELSE LoadBefore(i).err
        /\ NothingDone(i)
        /\ HartPrevPcAfter(i) = trace[i].hart_prev_pc
        /\ PendingAfter(i) = trace[i].pending
        /\ DeferredLoadAfter(i) = trace[i].load
        /\ PrevPcAfter(i) = trace[i].prev_pc
        /\ i = Len(trace)
        /\ run_state = "returned"

\* the deferred load of lw x3, 64(x0) has failed while the lw was pending:
\* the lw is still pending and its load is still the deferred load
C37_Witness ==
    \E i \in LoadFailures :
        /\ IsSome(trace[i].pending)
        /\ trace[i].pending.some.kind = "ok"
        /\ trace[i].pending.some.val.op = "load"
        /\ IsSome(trace[i].load)
        /\ processor.load = trace[i].load
        /\ processor.hart.next_instr = trace[i].pending
        /\ ~trace[i].events.executed

\* the fetch after the last word of the boot image has failed while an
\* addi that would change x3 was pending: x3 is unchanged
C37_FetchWithPending ==
    \E i \in FetchFailures :
        /\ IsSome(trace[i].pending)
        /\ trace[i].pending.some.kind = "ok"
        /\ trace[i].pending.some.val.op = "addi"
        /\ trace[i].pending.some.val.dest = 3
        /\ trace[i].registers[4] = 0
        /\ processor.hart.next_instr = trace[i].pending
        /\ processor.hart.prev_pc # processor.hart.pc

\* the successful cycles and the resets
Completions ==
    { i \in 1 .. Len(trace) :
        \/ trace[i].kind = "reset"
        \/ trace[i].kind = "cycle" /\ trace[i].result = "ok" }

\* the instruction pending after step i is a successfully decoded LOAD
LoadPendingAfter(i) ==
    /\ IsSome(PendingAfter(i))
    /\ PendingAfter(i).some.kind = "ok"
    /\ PendingAfter(i).some.val.op = "load"

\* the width of a LOAD by its funct3
WidthOfFunct3(f) ==
    CASE f = 0 -> "SignedByte"
      [] f = 1 -> "SignedHalfWord"
      [] f = 2 -> "Word"
      [] f = 4 -> "UnsignedByte"
      [] f = 5 -> "UnsignedHalfWord"

\* the request of the word fetched in cycle i, read as a LOAD, on the
\* registers the cycle left: its width and rs1 + imm_i
LoadRequestOf(i) ==
    LET raw == FetchBefore(i).val
        imm == ImmBits(raw, 20, 31)
    IN  [access_type |-> WidthOfFunct3(ImmBits(raw, 12, 14)),
         addr |-> WrappingAdd(trace[i].registers[ImmBits(raw, 15, 19) + 1],
                              IF imm >= 2048 THEN imm - 4096 ELSE imm)]

\* C38: after every successful processor cycle and after every reset, the
\* processor's deferred load is present exactly when the hart's pending
\* instruction is a successfully decoded LOAD, and then it carries that
\* LOAD's width and address; after a taken jump or a reset it is absent,
\* and a deferred load is performed only in a cycle that executes the LOAD
\* it belongs to.
C38_DeferredLoad ==
    /\ \A i \in Completions :
          /\ IsSome(DeferredLoadAfter(i)) <=> LoadPendingAfter(i)
          /\ LoadPendingAfter(i)
                => DeferredLoadAfter(i) = Some(LoadRequestOf(i))
          /\ (trace[i].kind = "reset" \/ trace[i].events.jumped)
                => DeferredLoadAfter(i) = None /\ PendingAfter(i) = None
    /\ \A i \in Cycles :
          IsSome(trace[i].events.loaded)
             => /\ trace[i].events.loaded = trace[i].load
                /\ IsSome(trace[i].pending)
                /\ trace[i].pending.some.kind = "ok"
                /\ trace[i].pending.some.val.op = "load"
                /\ trace[i].result = "ok" => trace[i].events.executed

\* lbu x3, 1(x1) has been decoded with x1 = 0x80000000: the deferred load
\* is an UnsignedByte at 0x80000001
C38_Witness ==
    \E i \in Completions :
        /\ trace[i].kind = "cycle"
        /\ FetchBefore(i).val = 1098115
        /\ LoadPendingAfter(i)
        /\ DeferredLoadAfter(i) = Some(LoadSpec("UnsignedByte", MinI32 + 1))

\* a jal has jumped over lw x3, 64(x0), whose load would fail: no load is
\* deferred and the next cycle performs none
C38_LoadAfterJump ==
    \E i \in TakenJumps :
        /\ FetchBefore(i).val = 67117443
        /\ DeferredLoadAfter(i) = None
        /\ (i + 1) \in Cycles
        /\ trace[i + 1].events.loaded = None
        /\ trace[i + 1].result = "ok"

\* a reset has been taken while a load was deferred
C38_ResetDropsLoad ==
    \E i \in Resets :
        /\ IsSome(trace[i].load)
        /\ DeferredLoadAfter(i) = None

====
